---- MODULE Spec2Model ----
(***************************************************************************)
(* A model of the card-matching and trade-dispatch engine of mangabuff:    *)
(* the wanters cache and the card selector (services/card_selector.py),    *)
(* the partner locator, the orchestration loop and the dispatch of a trade *)
(* (services/trade.py), the boost monitor (services/boost_monitor.py) and  *)
(* the files of the profile directory (services/card_storage.py,           *)
(* services/inventory.py, services/club.py).                               *)
(*                                                                         *)
(* Each component has its own specification (SpecCache, SpecSelector,      *)
(* SpecLocator, SpecTrade, SpecMonitored, SpecStorage, SpecDispatch); the  *)
(* variables of the other components keep their initial value under it.    *)
(***************************************************************************)
EXTENDS Integers, Sequences, FiniteSets, TLC

(***************************************************************************)
(* Bounds of the model.                                                    *)
(***************************************************************************)
\* longest inventory whose every order is explored
MaxCards == 2
\* largest wanters count a card or the target can have
MaxWanters == 3
\* number of clock advances in one behaviour of the cache
MaxTicks == 2
\* card ids are 1..MaxCardId
MaxCardId == 2
\* partner ids are 1..MaxPartners
MaxPartners == 1
\* calls of the partner locator in one run
MaxCalls == 2
\* full pages a partner's listing serves in the paged scan
MaxScanPages == 1
\* the configured timeout limit is one of 1..MaxTimeoutLimit
MaxTimeoutLimit == 2
\* pages the owner-page source yields in one run
MaxPages == 2
\* runs of the trade function the monitored loop starts
MaxRuns == 1
\* runs the loop of monitor_boost_with_trades starts while the boost page
\* offers no donation
MaxPasses == 2
\* writes of a file that are begun in one behaviour
MaxSaves == 2
\* trades handed to the dispatcher in one behaviour
MaxDispatches == 1
\* pieces in which json.dump hands the content of one file to the system
MaxChunks == 2
\* owners the pages of one run list in all
MaxOwners == 2
\* clock ticks in one second
TicksPerSecond == 2

\* checks of the boost page by the monitor
MaxChecks == 2
\* cards beyond the page size that the pages of one paged scan hold in all
MaxExtra == 2
\* monitor threads one BoostMonitor starts in one behaviour
MaxStarts == 3
\* the readings of datetime.now() are 1..MaxClock
MaxClock == 3

(***************************************************************************)
(* Program constants.                                                      *)
(***************************************************************************)
\* card_selector.py:14
CACHE_LIFETIME_HOURS == 24
\* card_selector.py:15, in percent (0.10)
WANTERS_TOLERANCE_UPPER == 10
\* card_selector.py:16, in percent (0.30)
WANTERS_TOLERANCE_LOWER == 30
\* card_selector.py:17
MAX_SELECTION_ATTEMPTS == 10

\* trade.py:562, in seconds
MIN_TRADE_DELAY == 11
\* trade.py:260
max_scanned_limit == 30000
\* trade.py:261, range(0, 1000)
max_scan_pages == 1000

\* Python's None where a number is expected
None == -1

CardIds == 1..MaxCardId
Counts == 0..MaxWanters

VARIABLES
    \* the wall clock, in seconds (time.time())
    now,
    \* number of clock advances so far
    ticks,
    \* CardWantersCache.cache_data: str(card_id) -> entry
    cache_data,
    \* content of card_wanters_cache.json
    cache_file,
    \* the last cache operation and what it returned
    cache_last

cacheVars == <<now, ticks, cache_data, cache_file, cache_last>>

VARIABLES
    \* where select_suitable_card_for_trade stands: "start", "loop", "done"
    sel_pc,
    \* the inventory passed to the selector
    my_cards,
    \* the target card: its raw rank and its wanters_count
    target_card,
    \* the rank-matching candidates, shuffled
    suitable_cards,
    \* the loop index of the selection loop
    attempt,
    \* (card_id, wanters) of every candidate examined and rejected
    rejected_cards,
    \* what the selector returned, and through which return statement
    sel_result,
    \* calls of count_by_last_page made by the call so far
    sel_lookups

selVars == <<sel_pc, my_cards, target_card, suitable_cards, attempt,
             rejected_cards, sel_result, sel_lookups>>

VARIABLES
    \* PARTNER_TIMEOUT_LIMIT of the configuration
    timeout_limit,
    \* where find_partner_card_instance stands
    loc_pc,
    \* the arguments of the call: partner_id, whether the name hint is longer
    \* than 2 characters, whether rank is not empty
    loc_args,
    \* PartnerState.blocked of the call
    blocked,
    \* PartnerState.timeouts of the call
    timeouts,
    \* the _attempt_ajax call in progress: its caller and its payload index
    ajax,
    \* offset, scanned and _page of the paged scan
    paging,
    \* the value the call returned (0 is None)
    loc_result,
    \* network requests issued by the call so far
    loc_requests,
    \* partners that entered blocked in an earlier call of the run
    run_blocked,
    \* the offers page of the call listed the wanted card with an instance id
    offers_hit,
    \* calls made so far in the run
    loc_calls,
    \* the strategies the call has entered, in the order it entered them
    loc_tried,
    \* the last network attempt of the call: its stage, what came of it, and
    \* for a read timeout the partner's timeout count before it
    loc_last

locVars == <<timeout_limit, offers_hit, loc_pc, loc_args, blocked, timeouts, ajax, paging, loc_result,
             loc_requests, run_blocked, loc_calls, loc_tried, loc_last>>

VARIABLES
    \* where send_trades_to_online_owners stands
    tr_pc,
    \* the dry_run and use_api arguments
    dry_run, use_api,
    \* the instance ids the loop offers
    my_instances,
    \* pages the owner-page source has yielded, and whether it has ended
    pages_yielded, source_exhausted,
    \* the page being processed and the position of the owner in it
    owners, idx,
    \* the statistics the run returns
    stats,
    \* time.time(), in clock ticks
    tr_now,
    \* last_trade_time, in clock ticks
    last_trade_time,
    \* the partner's instance and the own instance of the trade in hand
    his_inst, my_inst,
    \* the last dispatch: its number, its end, whether the loop slept before
    \* it, and what it offered to whom; the number of locator calls and of
    \* dispatches that sent a submission
    tr_disp

tradeVars == <<tr_pc, dry_run, use_api, my_instances, pages_yielded, source_exhausted,
               owners, idx, stats, tr_now, last_trade_time, his_inst, my_inst, tr_disp>>

VARIABLES
    \* BoostMonitor.should_stop_trades and BoostMonitor.can_donate
    should_stop_trades, can_donate,
    \* where the monitor thread stands in check_and_process
    mon_pc,
    \* runs of the trade function monitor_boost_with_trades has started, and
    \* whether its last look at the monitor made it pause
    mon_runs, trades_paused,
    \* owners_seen and the number of dispatches when should_stop_trades was
    \* last set
    stop_mark,
    \* the end of the last dispatch of the runs that have returned, in clock
    \* ticks (None when they made none)
    mon_last_end

monVars == <<should_stop_trades, can_donate, mon_pc, mon_runs, trades_paused, stop_mark,
             mon_last_end>>

VARIABLES
    \* the profile directory: the file each path names (0: no such file), and
    \* the content of every file
    dir, ino,
    \* for the main thread and the monitor thread: where it stands in a write,
    \* and the write it is in
    w_pc, w_job,
    \* writes begun so far
    saves,
    \* the process was killed
    crashed,
    \* two threads have been inside a write of the same file at once
    overlapped,
    \* where monitor_boost_with_trades stands before a run of the trades
    m_pc

stoVars == <<dir, ino, w_pc, w_job, saves, crashed, overlapped, m_pc>>

VARIABLES
    \* where the dispatch of one trade stands (lines 634-664 of trade.py)
    d_pc,
    \* the submissions the dispatch has sent, each with the response it got or
    \* with the mark that it raised
    d_resp,
    \* the local variable success of the loop
    d_success,
    \* the body of the primary response was read (r.json() or r.text)
    d_body_read,
    \* what create_trade_via_api returned: "" before it returns, then "True"
    \* or "False"
    d_api,
    \* trades_succeeded when the dispatch began, and dispatches begun so far
    d_before, d_count

dispVars == <<d_pc, d_resp, d_success, d_body_read, d_api, d_before, d_count>>

VARIABLES
    \* BoostMonitor.current_card_id (None before a card is known)
    current_card_id,
    \* data["boost_cards"] of the card storage: card_id and parsed_at of each
    boost_cards,
    \* the card id inside card_for_boost.json (None: no such file)
    card_file,
    \* the last reading of datetime.now() (0 before the first)
    b_clock,
    \* where check_and_process stands: "idle" between two checks, "donating"
    \* inside the donation branch
    b_pc,
    \* the card id of the target the last run of the trades was started with
    b_target,
    \* the last card id the boost page reported that differed from
    \* current_card_id when it was reported
    b_report,
    \* checks of the boost page begun so far
    b_checks,
    \* the card id of the last save_boost_card call (None before the first)
    b_saved

boostVars == <<current_card_id, boost_cards, card_file, b_clock, b_pc, b_target,
               b_report, b_checks, b_saved>>

VARIABLES
    \* the pages the paged scan has received so far: the cards they held in
    \* all, and the length of the last one (None before the first)
    scan_seen

scanVars == <<scan_seen>>

VARIABLES
    \* BoostMonitor.monitoring, whether BoostMonitor._stop_event is set, and
    \* BoostMonitor._monitor_thread (0 is None)
    monitoring, stop_event, monitor_thread,
    \* where each monitor_loop thread stands: "unborn", "test" (the loop
    \* condition), "check" (inside check_and_process), "wait", "ended"
    loop_pc,
    \* where the thread that calls start_monitoring and stop_monitoring stands
    caller_pc

thrVars == <<monitoring, stop_event, monitor_thread, loop_pc, caller_pc>>

(***************************************************************************)
(* CardWantersCache                                                        *)
(***************************************************************************)
\* key = str(card_id)
CacheKey(card_id) == ToString(card_id)

\* the entry set_card_info stores: the count and the time of the call
CacheEntry(wanters_count, t) == [wanters_count |-> wanters_count, timestamp |-> t]

\* current_time - timestamp > CACHE_LIFETIME_HOURS * 3600
IsExpired(entry, t) == t - entry.timestamp > CACHE_LIFETIME_HOURS * 3600

\* a function without the key k
DropKey(f, k) == [x \in DOMAIN f \ {k} |-> f[x]]

\* a function with the key k bound to v
PutKey(f, k, v) == [x \in DOMAIN f \cup {k} |-> IF x = k THEN v ELSE f[x]]

\* what get_wanters_count returns on the cache c at time t
get_wanters_count(c, card_id, t) ==
    LET key == CacheKey(card_id) IN
    IF key \notin DOMAIN c THEN None
    ELSE IF IsExpired(c[key], t) THEN None
    ELSE c[key].wanters_count

\* get_wanters_count without the deletion of the expired entry
CacheAfterGet_keep(c, card_id, t) == c

\* the cache get_wanters_count leaves behind: an expired entry is deleted
CacheAfterGet(c, card_id, t) ==
    LET key == CacheKey(card_id) IN
    IF key \in DOMAIN c /\ IsExpired(c[key], t) THEN DropKey(c, key) ELSE c

\* whether get_wanters_count saves the file (only after a deletion)
GetSaves(c, card_id, t) ==
    LET key == CacheKey(card_id) IN key \in DOMAIN c /\ IsExpired(c[key], t)

\* set_card_info that leaves an entry already stored as it is
set_card_info_keep(c, card_id, wanters_count, t) ==
    IF CacheKey(card_id) \in DOMAIN c THEN c
    ELSE PutKey(c, CacheKey(card_id), CacheEntry(wanters_count, t))

\* the cache set_card_info leaves behind
set_card_info(c, card_id, wanters_count, t) ==
    PutKey(c, CacheKey(card_id), CacheEntry(wanters_count, t))

\* the keys cleanup_old_entries deletes
keys_to_delete(c, t) == {key \in DOMAIN c : IsExpired(c[key], t)}

\* cleanup_old_entries that empties the cache
cleanup_old_entries_clear(c, t) == [key \in {} |-> c[key]]

\* the cache cleanup_old_entries leaves behind
cleanup_old_entries(c, t) == [key \in DOMAIN c \ keys_to_delete(c, t) |-> c[key]]

EmptyCache == [key \in {} |-> CacheEntry(0, 0)]

NoOp == [op |-> "none", id |-> 0, n |-> None, ret |-> None,
         after_set |-> None, saved |-> FALSE]

\* time passes between two operations
CacheTick ==
    /\ ticks < MaxTicks
    /\ \E d \in {1, CACHE_LIFETIME_HOURS * 3600} : now' = now + d
    /\ ticks' = ticks + 1
    /\ cache_last' = [NoOp EXCEPT !.op = "tick"]
    /\ UNCHANGED <<cache_data, cache_file, selVars, locVars, tradeVars, monVars, stoVars, dispVars, boostVars, scanVars, thrVars>>

\* cache.get_wanters_count(card_id)
CacheGet ==
    \E card_id \in CardIds :
        /\ cache_data' = CacheAfterGet(cache_data, card_id, now)
        /\ cache_file' = IF GetSaves(cache_data, card_id, now)
                         THEN cache_data' ELSE cache_file
        /\ cache_last' = [op |-> "get", id |-> card_id, n |-> None,
                          ret |-> get_wanters_count(cache_data, card_id, now),
                          after_set |-> IF cache_last.op = "set" /\ cache_last.id = card_id
                                        THEN cache_last.n ELSE None,
                          saved |-> GetSaves(cache_data, card_id, now)]
        /\ UNCHANGED <<now, ticks, selVars, locVars, tradeVars, monVars, stoVars, dispVars, boostVars, scanVars, thrVars>>

\* cache.set_card_info(card_id, wanters_count, card_info)
CacheSet ==
    \E card_id \in CardIds, wanters_count \in Counts :
        /\ cache_data' = set_card_info(cache_data, card_id, wanters_count, now)
        /\ cache_file' = cache_data'
        /\ cache_last' = [NoOp EXCEPT !.op = "set", !.id = card_id,
                                      !.n = wanters_count, !.saved = TRUE]
        /\ UNCHANGED <<now, ticks, selVars, locVars, tradeVars, monVars, stoVars, dispVars, boostVars, scanVars, thrVars>>

\* cache.cleanup_old_entries()
CacheCleanup ==
    /\ cache_data' = cleanup_old_entries(cache_data, now)
    /\ cache_file' = IF keys_to_delete(cache_data, now) # {}
                     THEN cache_data' ELSE cache_file
    /\ cache_last' = [NoOp EXCEPT !.op = "cleanup",
                                  !.saved = (keys_to_delete(cache_data, now) # {})]
    /\ UNCHANGED <<now, ticks, selVars, locVars, tradeVars, monVars, stoVars, dispVars, boostVars, scanVars, thrVars>>

CacheNext == CacheTick \/ CacheGet \/ CacheSet \/ CacheCleanup

(***************************************************************************)
(* Inventory entries and the canonical fields read from them               *)
(***************************************************************************)
\* a string is a sequence of characters; "" is <<>>
Blank == " "

\* str.strip(): leading and trailing blanks removed
RECURSIVE StripLeft(_)
StripLeft(s) == IF s # <<>> /\ Head(s) = Blank THEN StripLeft(Tail(s)) ELSE s

RECURSIVE StripRight(_)
StripRight(s) ==
    IF s # <<>> /\ s[Len(s)] = Blank THEN StripRight(SubSeq(s, 1, Len(s) - 1)) ELSE s

Strip(s) == StripRight(StripLeft(s))

\* card_rank = None: no rank found in the entry (equal to no string)
NoRank == <<"None">>

\* an entry whose "card" field is not a dict
NoDict == [is_dict |-> FALSE, id |-> 0, rank |-> <<>>, grade |-> <<>>]

\* an inventory entry: the flat fields and the nested "card" object
Entry(inst, cid, rank, grade, nested) ==
    [instance_id |-> inst, card_id |-> cid, rank |-> rank, grade |-> grade,
     card |-> nested]

\* entry_instance_id(card): the instance id of the entry, 0 when it has none
entry_instance_id(card) == card.instance_id

\* the rank of an entry: rank, else grade, else card.rank, else card.grade
card_rank_of(card) ==
    IF card.rank # <<>> THEN Strip(card.rank)
    ELSE IF card.grade # <<>> THEN Strip(card.grade)
    ELSE IF card.card.is_dict
         THEN IF card.card.rank # <<>> THEN Strip(card.card.rank)
              ELSE IF card.card.grade # <<>> THEN Strip(card.card.grade)
              ELSE NoRank
         ELSE NoRank

\* the card id of an entry: card_id, else card.id; 0 when it has none
card_id_of(card) ==
    IF card.card_id # 0 THEN card.card_id
    ELSE IF card.card.is_dict THEN card.card.id
    ELSE 0

\* target_rank = (target_card.get("rank") or "").strip()
target_rank_of(target) == Strip(target.rank)

\* the entries an inventory slot i can hold
SlotEntries(i) ==
    {Entry(i, cid, <<"B">>, <<>>, NoDict) : cid \in CardIds}
    \cup {Entry(i, 1, <<"A">>, <<>>, NoDict),
          Entry(i, MaxCardId, <<>>, <<Blank, "B">>, NoDict),
          Entry(i, 0, <<>>, <<>>,
                [is_dict |-> TRUE, id |-> 1, rank |-> <<"B", Blank>>, grade |-> <<>>]),
          Entry(0, 1, <<"B">>, <<>>, NoDict),
          Entry(i, 0, <<"B">>, <<>>, NoDict)}

\* every inventory of n entries, slot i holding instance i
RECURSIVE InventoriesOfLen(_)
InventoriesOfLen(n) ==
    IF n = 0 THEN {<<>>}
    ELSE {Append(inv, e) : inv \in InventoriesOfLen(n - 1), e \in SlotEntries(n)}

\* an inventory of n rank-B entries, more than the selector examines
BigInventory(n) ==
    [i \in 1..n |-> Entry(i, ((i - 1) % 2) + 1, <<"B">>, <<>>, NoDict)]

Inventories ==
    UNION {InventoriesOfLen(n) : n \in 0..MaxCards}
    \cup {BigInventory(MAX_SELECTION_ATTEMPTS + k) : k \in 1..2}

TargetCards == {[rank |-> r, wanters_count |-> w] : r \in {<<"B">>}, w \in Counts}

(***************************************************************************)
(* Card selector                                                           *)
(***************************************************************************)
\* the acceptance rule without the tolerance band: at most the target's count
is_wanters_count_acceptable_strict(target_wanters, card_wanters) ==
    card_wanters <= target_wanters

\* is_wanters_count_acceptable(target_wanters, card_wanters); int() truncates,
\* and the quotients below equal the float products for counts under 90
is_wanters_count_acceptable(target_wanters, card_wanters) ==
    IF target_wanters = 0 THEN card_wanters <= 3
    ELSE LET min_wanters == (target_wanters * (100 - WANTERS_TOLERANCE_LOWER)) \div 100
             max_wanters == (target_wanters * (100 + WANTERS_TOLERANCE_UPPER)) \div 100
         IN  min_wanters <= card_wanters /\ card_wanters <= max_wanters

\* the candidate built for an inventory entry
Candidate(card) ==
    [instance_id |-> entry_instance_id(card), card_id |-> card_id_of(card),
     card_info |-> card]

\* the filter without the comparison of the ranks
IsSuitable_any_rank(card, target_rank) ==
    /\ entry_instance_id(card) # 0
    /\ card_id_of(card) # 0

\* whether the filter keeps the entry: same rank, an instance id and a card id
IsSuitable(card, target_rank) ==
    /\ card_rank_of(card) = target_rank
    /\ entry_instance_id(card) # 0
    /\ card_id_of(card) # 0

\* the filter of the inventory, in inventory order
RECURSIVE FilterSuitable(_, _)
FilterSuitable(cards, target_rank) ==
    IF cards = <<>> THEN <<>>
    ELSE LET rest == FilterSuitable(Tail(cards), target_rank) IN
         IF IsSuitable(Head(cards), target_rank)
         THEN <<Candidate(Head(cards))>> \o rest
         ELSE rest

\* the permutations of 1..n
AllOrders(n) == {p \in [1..n -> 1..n] : \A i, j \in 1..n : p[i] = p[j] => i = j}

\* the rotations of 1..n
Rotations(n) == {[i \in 1..n |-> ((i + k - 1) % n) + 1] : k \in 0..(n - 1)}

\* random.shuffle(s): any order; a list longer than MaxCards is explored in
\* its rotations only, which put every element at every position
ShuffleOutcomes(s) ==
    LET n == Len(s)
        orders == IF n <= MaxCards THEN AllOrders(n) ELSE Rotations(n)
    IN  {[i \in 1..n |-> s[p[i]]] : p \in orders}

\* range(min(MAX_SELECTION_ATTEMPTS, len(suitable_cards)))
AttemptLimit(cands) ==
    IF Len(cands) < MAX_SELECTION_ATTEMPTS THEN Len(cands) ELSE MAX_SELECTION_ATTEMPTS

\* the wanters recorded for card_id in rejected_cards (the first entry for it)
RejectedWanters(rejected, card_id) ==
    LET k == CHOOSE k \in 1..Len(rejected) :
                 /\ rejected[k][1] = card_id
                 /\ \A j \in 1..(k - 1) : rejected[j][1] # card_id
    IN  rejected[k][2]

Abs(x) == IF x < 0 THEN -x ELSE x

\* the closest-match scan over suitable_cards[:len(rejected_cards)]: the index
\* of the first candidate with the smallest difference, 0 when there is none
RECURSIVE ClosestScan(_, _, _, _, _, _)
ClosestScan(cands, rejected, target_wanters, i, best, best_diff) ==
    IF i > Len(rejected) THEN best
    ELSE LET diff == Abs(RejectedWanters(rejected, cands[i].card_id) - target_wanters) IN
         IF best = 0 \/ diff < best_diff
         THEN ClosestScan(cands, rejected, target_wanters, i + 1, i, diff)
         ELSE ClosestScan(cands, rejected, target_wanters, i + 1, best, best_diff)

\* the closest-match scan without the comparison: the last candidate wins
best_card_last(cands, rejected, target_wanters) == Len(rejected)

\* the closest-match scan that keeps no candidate
best_card_none(cands, rejected, target_wanters) == 0

best_card(cands, rejected, target_wanters) ==
    ClosestScan(cands, rejected, target_wanters, 1, 0, 0)

\* get_card_wanters_count that asks the site whatever the cache holds
needs_lookup_always(cached_count) == TRUE

\* lines 117-121 of get_card_wanters_count: the site is asked only when the
\* cache gave None
needs_lookup(cached_count) == cached_count = None

\* the selector's return value: None, or (instance_id, card_info)
NoResult == [found |-> FALSE, instance_id |-> 0, card_id |-> 0, via |-> "none",
             wanters |-> None]

Returned(cand, via, wanters) ==
    [found |-> TRUE, instance_id |-> cand.instance_id, card_id |-> cand.card_id,
     via |-> via, wanters |-> wanters]

\* the caches a call can find on disk: empty, or one entry for card 1
SelCaches(t) ==
    {EmptyCache}
    \cup {set_card_info(EmptyCache, 1, w, ts) : w \in {0, MaxWanters}, ts \in {0, t}}

\* lines 182-236: the cache is loaded, swept one time in ten, the inventory
\* is filtered by rank and the candidates are shuffled
SelBegin ==
    /\ sel_pc = "start"
    /\ \E sweep \in BOOLEAN :
        /\ cache_data' = IF sweep THEN cleanup_old_entries(cache_file, now) ELSE cache_file
        /\ cache_file' = IF sweep /\ keys_to_delete(cache_file, now) # {}
                         THEN cache_data' ELSE cache_file
    /\ LET filtered == FilterSuitable(my_cards, target_rank_of(target_card)) IN
       IF filtered = <<>>
       THEN /\ sel_pc' = "done"
            /\ sel_result' = [NoResult EXCEPT !.via = "no_rank"]
            /\ UNCHANGED suitable_cards
       ELSE /\ sel_pc' = "loop"
            /\ suitable_cards' \in ShuffleOutcomes(filtered)
            /\ UNCHANGED sel_result
    /\ UNCHANGED <<my_cards, target_card, attempt, rejected_cards, sel_lookups, now, ticks,
                   cache_last, locVars, tradeVars, monVars, stoVars, dispVars, boostVars, scanVars, thrVars>>

\* lines 241-260: one iteration of the selection loop
SelAttempt ==
    /\ sel_pc = "loop"
    /\ attempt < AttemptLimit(suitable_cards)
    /\ LET candidate == suitable_cards[attempt + 1]
           card_id == candidate.card_id
           cached_count == get_wanters_count(cache_data, card_id, now)
           after_get == CacheAfterGet(cache_data, card_id, now)
       IN  \E fetched \in Counts :
             LET card_wanters == IF needs_lookup(cached_count) THEN fetched ELSE cached_count IN
             /\ ~needs_lookup(cached_count) => fetched = 0
             /\ sel_lookups' = IF needs_lookup(cached_count)
                                THEN sel_lookups + 1 ELSE sel_lookups
             /\ IF is_wanters_count_acceptable(target_card.wanters_count, card_wanters)
                THEN /\ sel_pc' = "done"
                     /\ sel_result' = Returned(candidate, "accepted", card_wanters)
                     /\ cache_data' = after_get
                     /\ cache_file' = IF GetSaves(cache_data, card_id, now)
                                      THEN after_get ELSE cache_file
                     /\ UNCHANGED <<attempt, rejected_cards>>
                ELSE /\ cache_data' = set_card_info(after_get, card_id, card_wanters, now)
                     /\ cache_file' = cache_data'
                     /\ rejected_cards' = Append(rejected_cards, <<card_id, card_wanters>>)
                     /\ attempt' = attempt + 1
                     /\ UNCHANGED <<sel_pc, sel_result>>
    /\ UNCHANGED <<my_cards, target_card, suitable_cards, now, ticks, cache_last,
                   locVars, tradeVars, monVars, stoVars, dispVars, boostVars, scanVars, thrVars>>

\* lines 262-297: no candidate was accepted
SelFallback ==
    /\ sel_pc = "loop"
    /\ attempt = AttemptLimit(suitable_cards)
    /\ sel_pc' = "done"
    /\ IF Len(suitable_cards) > MAX_SELECTION_ATTEMPTS
       THEN \E k \in (MAX_SELECTION_ATTEMPTS + 1)..Len(suitable_cards) :
                sel_result' = Returned(suitable_cards[k], "random_unchecked", None)
       ELSE LET b == best_card(suitable_cards, rejected_cards, target_card.wanters_count) IN
            IF b # 0
            THEN sel_result' = Returned(suitable_cards[b], "closest",
                                   RejectedWanters(rejected_cards, suitable_cards[b].card_id))
            ELSE sel_result' = [NoResult EXCEPT !.via = "fell_through"]
    /\ UNCHANGED <<my_cards, target_card, suitable_cards, attempt, rejected_cards,
                   sel_lookups, now, ticks, cache_data, cache_file, cache_last, locVars, tradeVars, monVars, stoVars, dispVars, boostVars, scanVars, thrVars>>

SelNext == SelBegin \/ SelAttempt \/ SelFallback

(***************************************************************************)
(* PartnerState                                                            *)
(***************************************************************************)
Partners == 1..MaxPartners

\* mangabuff.config.PARTNER_TIMEOUT_LIMIT (imported at trade.py:8): a positive
\* number fixed for the whole run
PARTNER_TIMEOUT_LIMIT == timeout_limit

\* PartnerState(): nothing blocked, no timeout counted
NoTimeouts == [p \in {} |-> 0]

\* is_blocked(pid)
is_blocked(b, pid) == pid \in b

\* self.timeouts.get(pid, 0) + 1
TimeoutCount(t, pid) == (IF pid \in DOMAIN t THEN t[pid] ELSE 0) + 1

\* mark_timeout(pid): the blocked set it leaves
mark_timeout_blocked(b, t, pid) ==
    IF TimeoutCount(t, pid) >= PARTNER_TIMEOUT_LIMIT THEN b \cup {pid} ELSE b

\* mark_timeout(pid): the timeouts map it leaves
mark_timeout_timeouts(b, t, pid) ==
    IF TimeoutCount(t, pid) >= PARTNER_TIMEOUT_LIMIT
    THEN DropKey(t, pid)
    ELSE PutKey(t, pid, TimeoutCount(t, pid))

\* clear_timeout(pid)
clear_timeout(t, pid) == DropKey(t, pid)

(***************************************************************************)
(* Partner locator: find_partner_card_instance and the loaders it calls    *)
(***************************************************************************)
\* the instance id a hit returns
FoundInstance == 501

\* page_size of the paged scan (trade.py:258)
page_size == 60

\* the card lists a response can carry: their length and whether the wanted
\* card is among them with an instance id
NoCards == [len |-> 0, hit |-> FALSE]

CardLists ==
    {[len |-> n, hit |-> h] : n \in {1, page_size}, h \in BOOLEAN} \cup {NoCards}

\* the number of payloads _attempt_ajax tries (lines 102-125)
AjaxAttempts(has_rank, has_search) ==
    (IF has_rank /\ has_search THEN 4 ELSE 0)
    + (IF has_rank THEN 2 ELSE 0)
    + (IF has_search THEN 2 ELSE 0)
    + 7

NoAjax == [caller |-> "none", idx |-> 0, n |-> 0]

NoPaging == [offset |-> 0, scanned |-> 0, page |-> 0]

NoArgs == [partner |-> 0, has_name |-> FALSE, has_rank |-> FALSE, was_blocked |-> FALSE,
           card_id |-> 0]

\* line 194: target_id = int(card_id)
LocTargets == {1}

\* partners whose timeout count reaches the limit with this timeout
NewlyTimedOut(b, t, pid) == mark_timeout_blocked(b, t, pid) \ b

\* no network attempt yet
NoLast == [stage |-> "none", outcome |-> "none", before |-> 0]

\* a network attempt of a stage with what came of it: "read_timeout",
\* "huge_list" (a JSON list of cards longer than HUGE_LIST_THRESHOLD),
\* "huge_html" (HTML with more cards than HUGE_LIST_THRESHOLD) or "other"
Last(stage, outcome) ==
    [stage |-> stage, outcome |-> outcome,
     before |-> IF outcome = "read_timeout"
                THEN TimeoutCount(timeouts, loc_args.partner) - 1 ELSE 0]

\* what came of a network attempt, as far as the claims tell outcomes apart
outcome_class(outcome) ==
    CASE outcome \in {"read_timeout", "timeout"} -> "read_timeout"
      [] outcome = "request_error" -> "request_error"
      [] outcome \in {"crash", "crash_decoded"} -> "crash"
      [] outcome = "huge" -> "huge_list"
      [] outcome \in {"huge_html", "huge_page", "huge_hit"} -> "huge_html"
      [] OTHER -> "other"

\* whether the payload idx of _attempt_ajax carries the search (lines
\* 102-113): with a rank the payloads 1-4 and 7-8, without one the payloads 1-2
payload_has_search(has_rank, has_search, i) ==
    /\ has_search
    /\ IF has_rank THEN i \in {1, 2, 3, 4, 7, 8} ELSE i \in {1, 2}

\* a list of cards longer than HUGE_LIST_THRESHOLD is never kept
huge_list_kept(b, pid) == b

\* lines 78-80 and 155-157: a JSON list of cards longer than
\* HUGE_LIST_THRESHOLD puts the partner in blocked
huge_list_blocks(b, pid) == b \cup {pid}

\* a call starts: state = PartnerState()
LocCall ==
    /\ loc_pc \in {"idle", "returned"}
    /\ loc_calls < MaxCalls
    /\ \E p \in Partners, has_name \in BOOLEAN, has_rank \in BOOLEAN, card \in LocTargets :
         loc_args' = [partner |-> p, has_name |-> has_name, has_rank |-> has_rank,
                      was_blocked |-> p \in run_blocked, card_id |-> card]
    /\ loc_pc' = "offers"
    /\ blocked' = {}
    /\ timeouts' = NoTimeouts
    /\ ajax' = NoAjax
    /\ paging' = NoPaging
    /\ loc_result' = 0
    /\ loc_requests' = 0
    /\ loc_calls' = loc_calls + 1
    /\ offers_hit' = FALSE
    /\ loc_tried' = <<>>
    /\ loc_last' = NoLast
    /\ UNCHANGED <<timeout_limit, run_blocked, cacheVars, selVars, tradeVars, monVars, stoVars, dispVars, boostVars, scanVars, thrVars>>

\* a partner's card as the locator sees it: entry_card_id and entry_instance_id
PartnerEntry(cid, inst) == [card_id |-> cid, instance_id |-> inst]

\* what the locator can find at a partner: nothing, the wanted card without
\* an instance id, the wanted card with one, another card
PartnerListings(target_id) ==
    {<<>>,
     <<PartnerEntry(target_id, 0)>>,
     <<PartnerEntry(target_id + 1, FoundInstance + 1), PartnerEntry(target_id, FoundInstance)>>,
     <<PartnerEntry(target_id + 1, FoundInstance + 1)>>}

\* lines 205-212 (and 238-245, 275-282, 304-311): the instance id of the
\* first entry with the wanted card id and an instance id, 0 for None
RECURSIVE find_instance(_, _)
find_instance(listing, target_id) ==
    IF listing = <<>> THEN 0
    ELSE IF Head(listing).card_id = target_id /\ Head(listing).instance_id # 0
         THEN Head(listing).instance_id
         ELSE find_instance(Tail(listing), target_id)

\* a locator that never finds the card on the offers page
offers_page_result_skipped(listing, target_id) == 0

\* lines 203-212: the instance the offers page yields, 0 when it yields none
offers_page_result(listing, target_id) == find_instance(listing, target_id)

\* a locator that goes from the offers page to its final retry
AfterOffers_final == "final"

\* the stage after the offers page: the name search, or the paged scan
AfterOffers == IF loc_args.has_name THEN "search" ELSE "page_enter"

\* lines 197-231: the partner's offers page, with a short read timeout
LocOffersPage ==
    /\ loc_pc = "offers"
    /\ loc_requests' = loc_requests + 1
    /\ loc_tried' = Append(loc_tried, 1)
    /\ \E outcome \in {"read_timeout", "request_error", "other_error", "not_200",
                       "page", "huge_page"} :
         /\ loc_last' = Last("offers", outcome_class(outcome))
         /\ CASE outcome = "read_timeout" ->
                /\ blocked' = mark_timeout_blocked(blocked, timeouts, loc_args.partner)
                /\ timeouts' = mark_timeout_timeouts(blocked, timeouts, loc_args.partner)
                /\ run_blocked' = run_blocked
                                  \cup NewlyTimedOut(blocked, timeouts, loc_args.partner)
                /\ loc_pc' = "returned"
                /\ loc_result' = 0
                /\ UNCHANGED <<ajax, offers_hit>>
           [] outcome = "request_error" ->
                /\ loc_pc' = "returned"
                /\ loc_result' = 0
                /\ UNCHANGED <<blocked, timeouts, run_blocked, ajax, offers_hit>>
           [] outcome \in {"page", "huge_page"} ->
                /\ \E listing \in PartnerListings(loc_args.card_id) :
                     LET inst == offers_page_result(listing, loc_args.card_id) IN
                     /\ outcome = "huge_page" => listing # <<>>
                     /\ offers_hit' = \E i \in DOMAIN listing :
                                         /\ listing[i].card_id = loc_args.card_id
                                         /\ listing[i].instance_id # 0
                     /\ IF inst # 0
                        THEN /\ loc_pc' = "returned"
                             /\ loc_result' = inst
                        ELSE /\ loc_pc' = AfterOffers
                             /\ UNCHANGED loc_result
                /\ UNCHANGED <<blocked, timeouts, run_blocked, ajax>>
           [] OTHER ->
                /\ loc_pc' = AfterOffers
                /\ UNCHANGED <<blocked, timeouts, run_blocked, loc_result, ajax,
                               offers_hit>>
    /\ UNCHANGED <<timeout_limit, loc_args, paging, loc_calls, cacheVars, selVars, tradeVars, monVars, stoVars, dispVars, boostVars, scanVars, thrVars>>

\* lines 50-81 and 176-180, called from the name search (lines 234-236):
\* _attempt_search; an empty result hands over to _attempt_ajax
LocSearch ==
    /\ loc_pc = "search"
    /\ loc_requests' = loc_requests + 1
    /\ loc_tried' = Append(loc_tried, 2)
    /\ \E outcome \in {"read_timeout", "request_error", "not_200", "too_big", "huge",
                       "cards", "huge_html", "crash"} :
         /\ loc_last' = Last("search", outcome_class(outcome))
         /\ CASE outcome = "crash" ->
                /\ blocked' = mark_timeout_blocked(blocked, timeouts, loc_args.partner)
                /\ timeouts' = mark_timeout_timeouts(blocked, timeouts, loc_args.partner)
                /\ run_blocked' = run_blocked
                                  \cup NewlyTimedOut(blocked, timeouts, loc_args.partner)
                /\ loc_pc' = "returned"
                /\ loc_result' = 0
           [] outcome = "read_timeout" ->
                /\ blocked' = mark_timeout_blocked(blocked, timeouts, loc_args.partner)
                /\ timeouts' = mark_timeout_timeouts(blocked, timeouts, loc_args.partner)
                /\ run_blocked' = run_blocked
                                  \cup NewlyTimedOut(blocked, timeouts, loc_args.partner)
                /\ loc_pc' = "ajax_enter"
                /\ loc_result' = 0
           [] outcome = "too_big" ->
                /\ blocked' = blocked \cup {loc_args.partner}
                /\ timeouts' = DropKey(timeouts, loc_args.partner)
                /\ loc_pc' = "ajax_enter"
                /\ UNCHANGED <<run_blocked, loc_result>>
           [] outcome = "huge" ->
                /\ blocked' = huge_list_blocks(blocked, loc_args.partner)
                /\ loc_pc' = "ajax_enter"
                /\ UNCHANGED <<timeouts, run_blocked, loc_result>>
           [] outcome \in {"cards", "huge_html"} ->
                \E cards \in CardLists :
                    /\ outcome = "huge_html" => cards.len = page_size
                    /\ IF cards.len = 0 THEN loc_pc' = "ajax_enter" /\ loc_result' = 0
                       ELSE IF cards.hit
                            THEN loc_pc' = "returned" /\ loc_result' = FoundInstance
                            ELSE loc_pc' = "page_enter" /\ loc_result' = 0
                    /\ UNCHANGED <<blocked, timeouts, run_blocked>>
           [] OTHER ->
                /\ loc_pc' = "ajax_enter"
                /\ UNCHANGED <<blocked, timeouts, run_blocked, loc_result>>
    /\ ajax' = [NoAjax EXCEPT !.caller = "search"]
    /\ UNCHANGED <<timeout_limit, offers_hit, loc_args, paging, loc_calls, cacheVars, selVars, tradeVars, monVars, stoVars, dispVars, boostVars, scanVars, thrVars>>

\* what find_partner_card_instance does with the list a loader returned
\* (lines 237-247 after the name search, lines 271-297 in the paged scan)
AfterCards(caller, cards) ==
    IF cards.len > 0 /\ cards.hit
    THEN /\ loc_pc' = "returned"
         /\ loc_result' = FoundInstance
         /\ UNCHANGED paging
    ELSE /\ loc_result' = 0
         /\ IF caller = "search"
            THEN loc_pc' = "page_enter" /\ UNCHANGED paging
            ELSE IF cards.len = 0 \/ cards.len < page_size
                 THEN /\ loc_pc' = "final"
                      /\ paging' = [paging EXCEPT !.scanned = @ + cards.len]
                 ELSE /\ paging' = [offset |-> paging.offset + cards.len,
                                    scanned |-> paging.scanned + cards.len,
                                    page |-> paging.page + 1]
                      /\ loc_pc' = IF paging.scanned + cards.len > max_scanned_limit
                                      \/ paging.page + 1 >= max_scan_pages
                                   THEN "final" ELSE "page_enter"

\* lines 256-263: the paged scan asks for the next page, without a search
LocPageEnter ==
    /\ loc_pc = "page_enter"
    /\ loc_pc' = "ajax_enter"
    /\ ajax' = [NoAjax EXCEPT !.caller = "paging"]
    /\ loc_tried' = IF paging.page = 0 THEN Append(loc_tried, 3) ELSE loc_tried
    /\ UNCHANGED <<timeout_limit, offers_hit, loc_args, blocked, timeouts, paging, loc_result, loc_requests,
                   run_blocked, loc_calls, loc_last, cacheVars, selVars, tradeVars, monVars, stoVars, dispVars, boostVars, scanVars, thrVars>>

\* lines 85-125: _attempt_ajax returns at once for a blocked partner, else
\* builds its payloads
LocAjaxEnter ==
    /\ loc_pc = "ajax_enter"
    /\ IF is_blocked(blocked, loc_args.partner)
       THEN /\ AfterCards(ajax.caller, NoCards)
            /\ UNCHANGED ajax
       ELSE /\ loc_pc' = "ajax"
            /\ ajax' = [ajax EXCEPT !.idx = 1,
                          !.n = AjaxAttempts(loc_args.has_rank, ajax.caller = "search")]
            /\ UNCHANGED <<paging, loc_result>>
    /\ UNCHANGED <<timeout_limit, offers_hit, loc_args, blocked, timeouts, loc_requests, run_blocked, loc_calls,
                   loc_tried, loc_last,
                   cacheVars, selVars, tradeVars, monVars, stoVars, dispVars, boostVars, scanVars, thrVars>>

\* an unexpected exception out of load_trade_cards (caught at lines 248-254 and
\* 264-269) leaves the timeouts map as it was, or cleared by line 150 when it
\* is raised after the body was decoded
AfterCrash(outcome, t, pid) ==
    IF outcome = "crash_decoded" THEN clear_timeout(t, pid) ELSE t

\* lines 127-171: one payload of _attempt_ajax is posted
LocAjaxPost ==
    /\ loc_pc = "ajax"
    /\ ajax.idx <= ajax.n
    /\ loc_requests' = loc_requests + 1
    /\ \E outcome \in {"timeout", "request_error", "not_200", "too_big", "huge",
                       "list", "html", "huge_html", "nothing", "crash",
                       "crash_decoded"} :
         /\ loc_last' = Last("load", outcome_class(outcome))
         /\ CASE outcome \in {"crash", "crash_decoded"} ->
                /\ blocked' = mark_timeout_blocked(blocked,
                                  AfterCrash(outcome, timeouts, loc_args.partner),
                                  loc_args.partner)
                /\ timeouts' = mark_timeout_timeouts(blocked,
                                  AfterCrash(outcome, timeouts, loc_args.partner),
                                  loc_args.partner)
                /\ run_blocked' = run_blocked
                                  \cup NewlyTimedOut(blocked,
                                         AfterCrash(outcome, timeouts, loc_args.partner),
                                         loc_args.partner)
                /\ loc_pc' = "returned"
                /\ loc_result' = 0
                /\ UNCHANGED <<ajax, paging>>
           [] outcome = "timeout" ->
                /\ blocked' = mark_timeout_blocked(blocked, timeouts, loc_args.partner)
                /\ timeouts' = mark_timeout_timeouts(blocked, timeouts, loc_args.partner)
                /\ run_blocked' = run_blocked
                                  \cup NewlyTimedOut(blocked, timeouts, loc_args.partner)
                /\ ajax' = [ajax EXCEPT !.idx = @ + 1]
                /\ UNCHANGED <<loc_pc, loc_result, paging>>
           [] outcome \in {"request_error", "not_200"} ->
                /\ ajax' = [ajax EXCEPT !.idx = @ + 1]
                /\ UNCHANGED <<blocked, timeouts, run_blocked, loc_pc, loc_result, paging>>
           [] outcome = "too_big" ->
                /\ blocked' = blocked \cup {loc_args.partner}
                /\ timeouts' = DropKey(timeouts, loc_args.partner)
                /\ AfterCards(ajax.caller, NoCards)
                /\ UNCHANGED <<run_blocked, ajax>>
           [] outcome = "huge" ->
                /\ blocked' = huge_list_blocks(blocked, loc_args.partner)
                /\ timeouts' = clear_timeout(timeouts, loc_args.partner)
                /\ AfterCards(ajax.caller, NoCards)
                /\ UNCHANGED <<run_blocked, ajax>>
           [] outcome = "list" ->
                /\ timeouts' = clear_timeout(timeouts, loc_args.partner)
                /\ \E cards \in CardLists :
                     /\ (ajax.caller = "paging" /\ cards.len = page_size)
                            => paging.page + 1 < MaxScanPages
                     /\ AfterCards(ajax.caller, cards)
                /\ UNCHANGED <<blocked, run_blocked, ajax>>
           [] outcome \in {"html", "huge_html"} ->
                /\ timeouts' = clear_timeout(timeouts, loc_args.partner)
                /\ \E cards \in CardLists \ {NoCards} :
                     /\ outcome = "huge_html" => cards.len = page_size
                     /\ (ajax.caller = "paging" /\ cards.len = page_size)
                            => paging.page + 1 < MaxScanPages
                     /\ AfterCards(ajax.caller, cards)
                /\ UNCHANGED <<blocked, run_blocked, ajax>>
           [] outcome = "nothing" ->
                /\ timeouts' = clear_timeout(timeouts, loc_args.partner)
                /\ ajax' = [ajax EXCEPT !.idx = @ + 1]
                /\ UNCHANGED <<blocked, run_blocked, loc_pc, loc_result, paging>>
    /\ UNCHANGED <<timeout_limit, offers_hit, loc_args, loc_calls, loc_tried, cacheVars, selVars, tradeVars, monVars, stoVars, dispVars, boostVars, scanVars, thrVars>>

\* line 173: every payload was tried, _attempt_ajax returns []
LocAjaxExhausted ==
    /\ loc_pc = "ajax"
    /\ ajax.idx > ajax.n
    /\ AfterCards(ajax.caller, NoCards)
    /\ UNCHANGED <<timeout_limit, offers_hit, loc_args, blocked, timeouts, ajax, loc_requests, run_blocked,
                   loc_calls, loc_tried, loc_last, cacheVars, selVars, tradeVars, monVars, stoVars, dispVars, boostVars, scanVars, thrVars>>

\* lines 299-318: the offers page once more, with a longer timeout
LocFinalOffers ==
    /\ loc_pc = "final"
    /\ loc_requests' = loc_requests + 1
    /\ loc_pc' = "returned"
    /\ loc_tried' = Append(loc_tried, 4)
    /\ \E outcome \in {"read_timeout", "error", "hit", "huge_hit", "miss"} :
         /\ loc_result' = IF outcome \in {"hit", "huge_hit"} THEN FoundInstance ELSE 0
         /\ loc_last' = Last("final", outcome_class(outcome))
    /\ UNCHANGED <<timeout_limit, offers_hit, loc_args, blocked, timeouts, ajax, paging, run_blocked, loc_calls,
                   cacheVars, selVars, tradeVars, monVars, stoVars, dispVars, boostVars, scanVars, thrVars>>

LocNext ==
    \/ LocCall
    \/ LocOffersPage
    \/ LocSearch
    \/ LocPageEnter
    \/ LocAjaxEnter
    \/ LocAjaxPost
    \/ LocAjaxExhausted
    \/ LocFinalOffers

(***************************************************************************)
(* The paged scan of find_partner_card_instance (lines 256-297) on its     *)
(* own, each load_trade_cards call taken as one step with the card list it *)
(* returns; the requests inside one load are those of LocAjaxPost.         *)
(***************************************************************************)
NoPages == [received |-> 0, last |-> None]

\* the lengths of the card list one load can return
PageLens == {0, page_size - 1} \cup {page_size + e : e \in 0..MaxExtra}

\* the timeouts counted before the scan: none, or some below the limit for
\* a partner that is not blocked
EarlierTimeouts(b, limit) ==
    {NoTimeouts} \cup {[p \in {q} |-> k] : q \in Partners \ b, k \in 1..(limit - 1)}

\* line 289 with the page size in place of the length of the page
next_offset_by_page_size(offset, n) == offset + page_size

\* line 289: offset += len(cards)
next_offset(offset, n) == offset + n

\* lines 261-297: one pass of the loop. The load raises (lines 264-269), or
\* returns a list: empty for a blocked partner (line 85) and where the load
\* itself blocks the partner (lines 143-147, 152-155)
ScanPage ==
    /\ loc_pc = "scan"
    /\ \E crash \in BOOLEAN, n \in PageLens, hit \in BOOLEAN, blocks \in BOOLEAN :
         IF crash
         THEN /\ n = 0 /\ ~hit /\ ~blocks
              /\ ~is_blocked(blocked, loc_args.partner)
              /\ blocked' = mark_timeout_blocked(blocked, timeouts, loc_args.partner)
              /\ timeouts' = mark_timeout_timeouts(blocked, timeouts, loc_args.partner)
              /\ loc_pc' = "returned"
              /\ loc_result' = 0
              /\ UNCHANGED <<paging, scan_seen>>
         ELSE /\ is_blocked(blocked, loc_args.partner) => n = 0 /\ ~blocks
              /\ blocks => n = 0
              /\ hit => n > 0
              /\ n > page_size =>
                     paging.offset + n <= (paging.page + 1) * page_size + MaxExtra
              /\ blocked' = IF blocks THEN blocked \cup {loc_args.partner} ELSE blocked
              /\ timeouts' = IF n > 0 \/ blocks
                             THEN clear_timeout(timeouts, loc_args.partner)
                             ELSE timeouts
              /\ scan_seen' = [received |-> scan_seen.received + n, last |-> n]
              /\ IF n = 0
                 THEN /\ loc_pc' = "final"
                      /\ UNCHANGED <<paging, loc_result>>
                 ELSE IF hit
                 THEN /\ loc_pc' = "returned"
                      /\ loc_result' = FoundInstance
                      /\ UNCHANGED paging
                 ELSE IF n < page_size
                 THEN /\ loc_pc' = "final"
                      /\ paging' = [paging EXCEPT !.scanned = @ + n]
                      /\ UNCHANGED loc_result
                 ELSE /\ paging' = [offset |-> next_offset(paging.offset, n),
                                    scanned |-> paging.scanned + n,
                                    page |-> paging.page + 1]
                      /\ loc_pc' = IF paging.scanned + n > max_scanned_limit
                                      \/ paging.page + 1 >= max_scan_pages
                                   THEN "final" ELSE "scan"
                      /\ UNCHANGED loc_result
    /\ UNCHANGED <<timeout_limit, offers_hit, loc_args, ajax, loc_requests, run_blocked,
                   loc_calls, loc_tried, loc_last, cacheVars, selVars, tradeVars, monVars,
                   stoVars, dispVars, boostVars, thrVars>>

ScanNext == ScanPage

(***************************************************************************)
(* Orchestration loop: send_trades_to_online_owners                        *)
(***************************************************************************)
\* MIN_TRADE_DELAY and every reading of time.time(), in clock ticks
DelayTicks == MIN_TRADE_DELAY * TicksPerSecond

\* random.uniform(0.5, 2.0), in clock ticks: the two ends of the interval
JitterTicks == {TicksPerSecond \div 2, 2 * TicksPerSecond}

\* time.time() when the run starts: the epoch is long past
StartTime == 2 * DelayTicks

\* profile_data["id"]
ProfileId == 3

\* my_user_id = str(profile_data.get("id") or ...)
my_user_id == ToString(ProfileId)

\* the owner ids a page can list
OwnerIds == {1, 2, ProfileId}

\* the pages the source can yield: at most n owner ids
OwnerPages(n) == UNION {[1..k -> OwnerIds] : k \in 0..n}

\* the inventories passed to the loop: entries of rank B or rank A, with or
\* without an instance id
LoopInventories ==
    {<<>>,
     <<Entry(0, 1, <<"B">>, <<>>, NoDict)>>,
     <<Entry(7, 2, <<"A", Blank>>, <<>>, NoDict)>>,
     <<Entry(0, 1, <<"B">>, <<>>, NoDict), Entry(6, 1, <<"B">>, <<>>, NoDict)>>,
     <<Entry(5, 1, <<>>, <<"B">>, NoDict), Entry(7, 2, <<"A">>, <<>>, NoDict)>>,
     <<Entry(5, 1, <<"B">>, <<>>, NoDict), Entry(6, 2, <<Blank, "B">>, <<>>, NoDict)>>}

\* the targets passed to the loop: of rank B, or without a rank
LoopTargets == {[rank |-> r, wanters_count |-> 0, card_id |-> 1] : r \in {<<"B">>, <<>>}}

\* r = (c.get("rank") or c.get("grade") or "").strip()
loop_rank_of(c) == IF c.rank # <<>> THEN Strip(c.rank) ELSE Strip(c.grade)

\* the instance id of every entry, 0 where it has none
RECURSIVE instances_any_unfiltered(_)
instances_any_unfiltered(cards) ==
    IF cards = <<>> THEN <<>>
    ELSE <<entry_instance_id(Head(cards))>> \o instances_any_unfiltered(Tail(cards))

\* instances_any(cards): every instance id of the inventory, in order
RECURSIVE instances_any(_)
instances_any(cards) ==
    IF cards = <<>> THEN <<>>
    ELSE IF entry_instance_id(Head(cards)) # 0
         THEN <<entry_instance_id(Head(cards))>> \o instances_any(Tail(cards))
         ELSE instances_any(Tail(cards))

\* lines 539-546: the instance ids of the entries of the target's rank
RECURSIVE instances_of_rank(_, _)
instances_of_rank(cards, rank) ==
    IF cards = <<>> \/ rank = <<>> THEN <<>>
    ELSE IF loop_rank_of(Head(cards)) = rank /\ entry_instance_id(Head(cards)) # 0
         THEN <<entry_instance_id(Head(cards))>> \o instances_of_rank(Tail(cards), rank)
         ELSE instances_of_rank(Tail(cards), rank)

\* my_instances without the test of the instance id
collect_my_instances_unfiltered(cards, rank) == instances_any_unfiltered(cards)

\* lines 539-549: my_instances, any instance when none has the rank
collect_my_instances(cards, rank) ==
    IF instances_of_rank(cards, rank) # <<>>
    THEN instances_of_rank(cards, rank)
    ELSE instances_any(cards)

NoStats ==
    [checked_pages |-> 0, owners_seen |-> 0, trades_attempted |-> 0,
     trades_succeeded |-> 0, skipped_no_my_cards |-> 0, skipped_self |-> 0,
     skipped_no_instance |-> 0]

NoDispatch ==
    [n |-> 0, end |-> 0, waited |-> FALSE, owner |-> 0, prev_owner |-> 0,
     my_inst |-> 0, his_inst |-> 0, located |-> 0, submits |-> 0]

\* line 557: card_id = int(target_card.get("card_id") or ... or 0)
target_card_id(target) == target.card_id

\* a loop that takes no owner for the operating user
is_self_never(owner) == FALSE

\* line 582: str(owner_id) == my_user_id
is_self(owner) == ToString(owner) = my_user_id

\* an enumeration of the page from its end
owner_at_reversed(page, i) == page[Len(page) + 1 - i]

\* line 578: the owner the loop is at, in list order
owner_at(page, i) == page[i]

\* a dry run that takes the branch of a real run
after_choice_real(dry) == "wait"

\* line 607: the branch after the own instance is chosen
after_choice(dry) == IF dry THEN "dry_wait" ELSE "wait"

\* a loop that never sleeps before a dispatch
sleep_none(current_time, last) == 0

\* lines 611-617 and 622-628: the time to sleep before a dispatch
sleep_time(current_time, last) ==
    IF current_time - last < DelayTicks
    THEN DelayTicks - (current_time - last)
    ELSE 0

\* a loop that returns when a page is finished
AfterOwner_return(i, page) == IF i < Len(page) THEN "owner" ELSE "returned"

\* lines 566 and 578: the next owner of the page, else the next page
AfterOwner(i, page) == IF i < Len(page) THEN "owner" ELSE "pages"

\* an owner counted as seen and under no outcome
count_owner_seen_only(st, outcome) == [st EXCEPT !.owners_seen = @ + 1]

\* lines 579, 583, 597 and 605: an owner is counted as seen and under the one
\* outcome it had
count_owner(st, outcome) == [st EXCEPT !.owners_seen = @ + 1, ![outcome] = @ + 1]

\* lines 517-563: the statistics, my_instances, and the early return
TradeStart ==
    /\ tr_pc = "start"
    /\ my_instances' = collect_my_instances(my_cards, target_rank_of(target_card))
    /\ IF my_instances' = <<>>
       THEN /\ stats' = [stats EXCEPT !.skipped_no_my_cards = 1]
            /\ tr_pc' = "returned"
       ELSE /\ stats' = stats
            /\ tr_pc' = "pages"
    /\ UNCHANGED <<dry_run, use_api, pages_yielded, source_exhausted, owners, idx,
                   tr_now, last_trade_time, his_inst, my_inst, tr_disp,
                   cacheVars, selVars, locVars, monVars, stoVars, dispVars, boostVars, scanVars, thrVars>>

\* lines 566-572: the source yields one more page
TradeNextPage ==
    /\ tr_pc = "pages"
    /\ pages_yielded < MaxPages
    /\ \E page \in OwnerPages(MaxOwners - stats.owners_seen) :
         /\ owners' = page
         /\ tr_pc' = IF page = <<>> THEN "pages" ELSE "owner"
    /\ idx' = 1
    /\ pages_yielded' = pages_yielded + 1
    /\ stats' = [stats EXCEPT !.checked_pages = @ + 1]
    /\ UNCHANGED <<dry_run, use_api, my_instances, source_exhausted, tr_now,
                   last_trade_time, his_inst, my_inst, tr_disp,
                   cacheVars, selVars, locVars, monVars, stoVars, dispVars, boostVars, scanVars, thrVars>>

\* lines 566 and 677: the source is exhausted, the statistics are returned
TradeSourceExhausted ==
    /\ tr_pc = "pages"
    /\ source_exhausted' = TRUE
    /\ tr_pc' = "returned"
    /\ UNCHANGED <<dry_run, use_api, my_instances, pages_yielded, owners, idx, stats,
                   tr_now, last_trade_time, his_inst, my_inst, tr_disp,
                   cacheVars, selVars, locVars, monVars, stoVars, dispVars, boostVars, scanVars, thrVars>>

\* lines 578-605: one owner of the page: self skip, the partner locator, the
\* choice of the own instance
TradeOwner ==
    /\ tr_pc = "owner"
    /\ IF is_self(owner_at(owners, idx))
       THEN /\ stats' = count_owner(stats, "skipped_self")
            /\ tr_pc' = AfterOwner(idx, owners)
            /\ idx' = idx + 1
            /\ UNCHANGED <<tr_now, his_inst, my_inst, tr_disp>>
       ELSE \E listing \in PartnerListings(target_card_id(target_card)),
               elapsed \in {0, DelayTicks} :
              /\ tr_now' = tr_now + elapsed
              /\ his_inst' = find_instance(listing, target_card_id(target_card))
              /\ tr_disp' = [tr_disp EXCEPT !.located = @ + 1]
              /\ IF his_inst' = 0
                 THEN /\ stats' = count_owner(stats, "skipped_no_instance")
                      /\ tr_pc' = AfterOwner(idx, owners)
                      /\ idx' = idx + 1
                      /\ UNCHANGED my_inst
                 ELSE /\ \E i \in 1..Len(my_instances) : my_inst' = my_instances[i]
                      /\ stats' = count_owner(stats, "trades_attempted")
                      /\ tr_pc' = after_choice(dry_run)
                      /\ UNCHANGED idx
    /\ UNCHANGED <<dry_run, use_api, my_instances, pages_yielded, source_exhausted,
                   owners, last_trade_time, cacheVars, selVars, locVars, monVars, stoVars, dispVars, boostVars, scanVars, thrVars>>

\* lines 607-619: the simulated dispatch of a dry run
TradeDryRun ==
    /\ tr_pc = "dry_wait"
    /\ \E oversleep \in {0, 1} :
         tr_now' = IF sleep_time(tr_now, last_trade_time) > 0
                   THEN tr_now + sleep_time(tr_now, last_trade_time) + oversleep
                   ELSE tr_now
    /\ last_trade_time' = tr_now'
    /\ tr_disp' = [n |-> tr_disp.n + 1, end |-> tr_now',
                   waited |-> sleep_time(tr_now, last_trade_time) > 0,
                   owner |-> owner_at(owners, idx), prev_owner |-> tr_disp.owner,
                   my_inst |-> my_inst, his_inst |-> his_inst,
                   located |-> tr_disp.located, submits |-> tr_disp.submits]
    /\ tr_pc' = AfterOwner(idx, owners)
    /\ idx' = idx + 1
    /\ UNCHANGED <<dry_run, use_api, my_instances, pages_yielded, source_exhausted,
                   owners, stats, his_inst, my_inst, cacheVars, selVars, locVars, monVars, stoVars, dispVars, boostVars, scanVars, thrVars>>

\* lines 621-628: the wait before a real dispatch
TradeWait ==
    /\ tr_pc = "wait"
    /\ \E oversleep \in {0, 1} :
         tr_now' = IF sleep_time(tr_now, last_trade_time) > 0
                   THEN tr_now + sleep_time(tr_now, last_trade_time) + oversleep
                   ELSE tr_now
    /\ tr_pc' = "dispatch"
    /\ tr_disp' = [tr_disp EXCEPT !.waited = sleep_time(tr_now, last_trade_time) > 0]
    /\ UNCHANGED <<dry_run, use_api, my_instances, pages_yielded, source_exhausted,
                   owners, idx, stats, last_trade_time, his_inst, my_inst,
                   cacheVars, selVars, locVars, monVars, stoVars, dispVars, boostVars, scanVars, thrVars>>

\* lines 634-664: the dispatch through the API, then through the form, and the
\* stamp of last_trade_time
TradeDispatch ==
    /\ tr_pc = "dispatch"
    /\ \E api \in BOOLEAN, form \in {"none", "accepted", "refused"}, elapsed \in {0, 1} :
         LET success == (use_api /\ api) \/ form = "accepted" IN
         /\ (use_api /\ api) => form = "none"
         /\ tr_now' = tr_now + elapsed
         /\ stats' = IF success THEN [stats EXCEPT !.trades_succeeded = @ + 1]
                     ELSE stats
    /\ last_trade_time' = tr_now'
    /\ tr_disp' = [n |-> tr_disp.n + 1, end |-> tr_now', waited |-> tr_disp.waited,
                   owner |-> owner_at(owners, idx), prev_owner |-> tr_disp.owner,
                   my_inst |-> my_inst, his_inst |-> his_inst,
                   located |-> tr_disp.located, submits |-> tr_disp.submits + 1]
    /\ tr_pc' = "jitter"
    /\ UNCHANGED <<dry_run, use_api, my_instances, pages_yielded, source_exhausted,
                   owners, idx, his_inst, my_inst, cacheVars, selVars, locVars, monVars, stoVars, dispVars, boostVars, scanVars, thrVars>>

\* lines 666-670: the random delay after a real dispatch
TradeJitter ==
    /\ tr_pc = "jitter"
    /\ \E additional_delay \in JitterTicks : tr_now' = tr_now + additional_delay
    /\ tr_pc' = AfterOwner(idx, owners)
    /\ idx' = idx + 1
    /\ UNCHANGED <<dry_run, use_api, my_instances, pages_yielded, source_exhausted,
                   owners, stats, last_trade_time, his_inst, my_inst, tr_disp,
                   cacheVars, selVars, locVars, monVars, stoVars, dispVars, boostVars, scanVars, thrVars>>

TradeNext ==
    \/ TradeStart
    \/ TradeNextPage
    \/ TradeSourceExhausted
    \/ TradeOwner
    \/ TradeDryRun
    \/ TradeWait
    \/ TradeDispatch
    \/ TradeJitter

(***************************************************************************)
(* The boost monitor beside the trade loop (services/boost_monitor.py):    *)
(* BoostMonitor.check_and_process runs in the thread start_monitoring      *)
(* creates, monitor_boost_with_trades runs the trade function in the       *)
(* calling thread.                                                         *)
(***************************************************************************)
NoMark == [seen |-> None, dispatches |-> None]

\* lines 300-303: the boost page offers a donation; the monitor asks the
\* trades to stop
MonitorStop ==
    /\ ~crashed
    /\ mon_pc = "idle"
    /\ ~can_donate
    /\ can_donate' = TRUE
    /\ should_stop_trades' = TRUE
    /\ mon_pc' = "donating"
    /\ stop_mark' = [seen |-> stats.owners_seen, dispatches |-> tr_disp.n]
    /\ UNCHANGED <<mon_runs, trades_paused, mon_last_end, cacheVars, selVars, locVars, tradeVars, stoVars, dispVars, boostVars, scanVars, thrVars>>

\* lines 306-338: the donation and the new boost card; should_stop_trades is
\* reset only when the new card was found, and an exception leaves
\* check_and_process before can_donate is reset
MonitorDonate ==
    /\ ~crashed
    /\ mon_pc = "donating"
    /\ w_pc["monitor"] = "idle"
    /\ \E outcome \in {"new_card", "no_card", "not_donated", "error"} :
         /\ should_stop_trades' = IF outcome = "new_card" THEN FALSE
                                  ELSE should_stop_trades
         /\ can_donate' = IF outcome = "error" THEN can_donate ELSE FALSE
    /\ mon_pc' = "idle"
    /\ UNCHANGED <<mon_runs, trades_paused, stop_mark, mon_last_end,
                   cacheVars, selVars, locVars, tradeVars, stoVars, dispVars, boostVars, scanVars, thrVars>>

\* lines 466-472: the sleep after a run, in clock ticks: a minute when the
\* run saw no owner, five seconds otherwise
sleep_after_run(st) ==
    (IF st.owners_seen = 0 THEN 60 ELSE 5) * TicksPerSecond

\* lines 463-472: the trade function has returned; the loop sleeps before its
\* next pass
MonitoredSleep ==
    /\ tr_pc = "returned"
    /\ mon_runs >= 1
    /\ tr_pc' = "idle"
    /\ tr_now' = tr_now + sleep_after_run(stats)
    /\ mon_last_end' = IF tr_disp.n > 0 THEN tr_disp.end ELSE mon_last_end
    /\ UNCHANGED <<dry_run, use_api, my_instances, pages_yielded, source_exhausted, owners,
                   idx, stats, last_trade_time, his_inst, my_inst, tr_disp,
                   should_stop_trades, can_donate, mon_pc, mon_runs, trades_paused,
                   stop_mark, cacheVars, selVars, locVars, stoVars, dispVars, boostVars,
                   scanVars, thrVars>>

\* monitor_boost_with_trades, lines 426-462: at the top of its loop the caller
\* asks the monitor, pauses when the trades are to stop (the five seconds of
\* line 430 are counted for the first pause of a row), and otherwise starts
\* the trade function anew, with last_trade_time at 0.0 again (line 563)
run_trades(limit) ==
    /\ tr_pc = "idle"
    /\ IF should_stop_trades
       THEN /\ trades_paused' = TRUE
            /\ tr_now' = IF trades_paused THEN tr_now ELSE tr_now + 5 * TicksPerSecond
            /\ UNCHANGED <<mon_runs, tr_pc, dry_run, use_api, my_instances, pages_yielded,
                           source_exhausted, owners, idx, stats, last_trade_time,
                           his_inst, my_inst, tr_disp>>
       ELSE /\ mon_runs < limit
            /\ trades_paused' = FALSE
            /\ mon_runs' = mon_runs + 1
            /\ tr_pc' = "start"
            /\ my_instances' = <<>>
            /\ pages_yielded' = 0
            /\ source_exhausted' = FALSE
            /\ owners' = <<>>
            /\ idx' = 0
            /\ stats' = NoStats
            /\ last_trade_time' = 0
            /\ his_inst' = 0
            /\ my_inst' = 0
            /\ tr_disp' = NoDispatch
            /\ UNCHANGED <<dry_run, use_api, tr_now>>
    /\ UNCHANGED <<should_stop_trades, can_donate, mon_pc, stop_mark, mon_last_end,
                   cacheVars, selVars, locVars, stoVars, dispVars, boostVars, scanVars, thrVars>>

\* a pass of the loop beside a monitor thread that may ask for a pause
MonitoredRun == run_trades(MaxRuns)

\* a pass of the loop while the boost page offers no donation
PassRun == run_trades(MaxPasses)

PassesNext ==
    \/ TradeStart
    \/ TradeNextPage
    \/ TradeSourceExhausted
    \/ TradeOwner
    \/ TradeDryRun
    \/ TradeWait
    \/ TradeDispatch
    \/ TradeJitter
    \/ MonitoredSleep
    \/ PassRun

MonitoredNext ==
    \/ TradeStart
    \/ TradeNextPage
    \/ TradeSourceExhausted
    \/ TradeOwner
    \/ TradeDryRun
    \/ TradeWait
    \/ TradeDispatch
    \/ TradeJitter
    \/ MonitorStop
    \/ MonitorDonate
    \/ MonitoredSleep
    \/ MonitoredRun

(***************************************************************************)
(* The files of the profile directory and their writers:                   *)
(* CardWantersCache._save_cache (card_selector.py),                        *)
(* UnifiedCardStorage._save_data (card_storage.py), fetch_all_cards_by_id  *)
(* (inventory.py) and find_boost_card_info (club.py).  A file is a         *)
(* sequence of chunks, each chunk the version of the content it came from; *)
(* a path names a file as in a POSIX directory, so a file that is renamed  *)
(* stays the file an open handle writes to.                                *)
(***************************************************************************)
\* the thread of monitor_boost_with_trades and the thread of start_monitoring
Threads == {"main", "monitor"}

\* card_wanters_cache.json, all_parsed_cards.json, my_cards.json or
\* {user_id}.json, card_for_boost.json
Targets == {"cache", "storage", "cards", "boost"}

\* with_suffix(".json.tmp") and with_suffix(suffix + ".tmp")
tmp_file(target) ==
    CASE target = "cache" -> "cache.tmp"
      [] target = "storage" -> "storage.tmp"
      [] target = "cards" -> "cards.tmp"
      [] OTHER -> "boost.tmp"

Paths == Targets \cup {tmp_file(f) : f \in Targets}

\* the files a behaviour can create
Files == 1..(Cardinality(Targets) + MaxSaves)

\* a chunk that was never written
Hole == 0

\* the content every target has at the start
FirstVersion == 1

WholeFile(ver) == [i \in 1..MaxChunks |-> ver]

InitialDir ==
    [f \in Paths |-> CASE f = "cache" -> 1
                       [] f = "storage" -> 2
                       [] f = "cards" -> 3
                       [] f = "boost" -> 4
                       [] OTHER -> 0]

InitialFiles == [i \in Files |-> IF i <= Cardinality(Targets) THEN WholeFile(FirstVersion)
                                 ELSE <<>>]

NoJob == [target |-> "", atomic |-> FALSE, fallback |-> FALSE, fd |-> 0, ver |-> 0, pos |-> 0]

\* the file is what one json.dump wrote from beginning to end
Complete(content) ==
    /\ Len(content) = MaxChunks
    /\ content[1] # Hole
    /\ \A i \in 1..MaxChunks : content[i] = content[1]

\* a path that was never created or was renamed away has no file
FreeFile == CHOOSE i \in Files : \A f \in Paths : dir[f] # i /\ \A t \in Threads : w_job[t].fd # i

\* f.write at the handle's own position
PutChunk(content, pos, ver) ==
    IF pos <= Len(content) THEN [content EXCEPT ![pos] = ver]
    ELSE [i \in 1..pos |-> IF i <= Len(content) THEN content[i]
                           ELSE IF i = pos THEN ver ELSE Hole]

\* another thread is inside a write of the same target
Overlaps(t, target) == \E u \in Threads \ {t} : w_pc[u] # "idle" /\ w_job[u].target = target

\* path.open("w"): the file is created, or the file the path names is
\* truncated; the handle is at position 0
OpenForWrite(t, target, path, atomic, fallback) ==
    /\ ~crashed
    /\ saves < MaxSaves
    /\ w_pc[t] = "idle"
    /\ saves' = saves + 1
    /\ LET file == IF dir[path] = 0 THEN FreeFile ELSE dir[path] IN
       /\ dir' = [dir EXCEPT ![path] = file]
       /\ ino' = [ino EXCEPT ![file] = <<>>]
       /\ w_job' = [w_job EXCEPT ![t] = [target |-> target, atomic |-> atomic,
                                         fallback |-> fallback, fd |-> file,
                                         ver |-> FirstVersion + saves + 1, pos |-> 0]]
    /\ w_pc' = [w_pc EXCEPT ![t] = "writing"]
    /\ overlapped' = (overlapped \/ Overlaps(t, target))
    /\ UNCHANGED <<crashed, cacheVars, selVars, locVars, tradeVars, monVars, dispVars, boostVars, scanVars, thrVars>>

\* boost_monitor.py lines 426-441: the caller asks the monitor, pauses when the
\* trades are to stop, and otherwise looks for the boost card in the storage
\* and then in card_for_boost.json
MonitoredLoad ==
    /\ ~crashed
    /\ m_pc = "check"
    /\ IF should_stop_trades
       THEN /\ ~trades_paused
            /\ trades_paused' = TRUE
            /\ UNCHANGED m_pc
       ELSE /\ \E in_storage \in BOOLEAN :
                 m_pc' = IF in_storage THEN "run" ELSE "legacy"
            /\ trades_paused' = FALSE
    /\ UNCHANGED <<should_stop_trades, can_donate, mon_pc, mon_runs, stop_mark, mon_last_end,
                   dir, ino, w_pc, w_job, saves, crashed, overlapped,
                   cacheVars, selVars, locVars, tradeVars, dispVars, boostVars, scanVars, thrVars>>

\* card_selector.py lines 39-42: _save_cache opens its temporary file
SaveCache ==
    /\ OpenForWrite("main", "cache", tmp_file("cache"), TRUE, FALSE)
    /\ UNCHANGED m_pc

\* card_storage.py lines 38-50: _save_data opens its temporary file.  The
\* monitor thread calls it inside check_and_process (boost_monitor.py line
\* 324, club.py line 228), the main thread when it has read the boost card
\* from card_for_boost.json (boost_monitor.py line 443)
SaveData(t) ==
    /\ IF t = "monitor" THEN mon_pc = "donating" ELSE m_pc = "legacy"
    /\ OpenForWrite(t, "storage", tmp_file("storage"), TRUE, FALSE)
    /\ m_pc' = IF t = "main" THEN "run" ELSE m_pc

\* inventory.py lines 58-59 and 67-68: the cards of the unified storage are
\* written into the cards file itself
CardsFromStorage ==
    /\ OpenForWrite("main", "cards", "cards", FALSE, FALSE)
    /\ UNCHANGED m_pc

\* inventory.py lines 200-202: the fetched cards are written into the
\* temporary file
CardsFetched ==
    /\ OpenForWrite("main", "cards", tmp_file("cards"), TRUE, TRUE)
    /\ UNCHANGED m_pc

\* club.py lines 183-185 and 233-235: find_boost_card_info, called by the
\* monitor thread inside check_and_process, writes the boost card into
\* card_for_boost.json itself
BoostCardFile ==
    /\ mon_pc = "donating"
    /\ OpenForWrite("monitor", "boost", "boost", FALSE, FALSE)
    /\ UNCHANGED m_pc

\* json.dump(..., f): one more chunk; the with block closes the file after
\* the last one
WriteChunk(t) ==
    /\ ~crashed
    /\ w_pc[t] = "writing"
    /\ LET job == w_job[t] IN
       /\ ino' = [ino EXCEPT ![job.fd] = PutChunk(@, job.pos + 1, job.ver)]
       /\ IF job.pos + 1 < MaxChunks
          THEN /\ w_job' = [w_job EXCEPT ![t].pos = @ + 1]
               /\ UNCHANGED w_pc
          ELSE IF job.atomic
          THEN /\ w_job' = [w_job EXCEPT ![t].pos = @ + 1]
               /\ w_pc' = [w_pc EXCEPT ![t] = "replace"]
          ELSE /\ w_job' = [w_job EXCEPT ![t] = NoJob]
               /\ w_pc' = [w_pc EXCEPT ![t] = "idle"]
    /\ UNCHANGED <<dir, saves, crashed, overlapped, m_pc,
                   cacheVars, selVars, locVars, tradeVars, monVars, dispVars, boostVars, scanVars, thrVars>>

\* an exception inside the write: inventory.py lines 205-209 catch it and
\* write the cards file itself; _save_cache, _save_data and the direct writes
\* let it pass to the caller
AfterError(t) ==
    LET job == w_job[t]
        file == IF dir[job.target] = 0 THEN FreeFile ELSE dir[job.target] IN
    IF job.fallback
    THEN /\ dir' = [dir EXCEPT ![job.target] = file]
         /\ ino' = [ino EXCEPT ![file] = <<>>]
         /\ w_job' = [w_job EXCEPT ![t] = [job EXCEPT !.atomic = FALSE, !.fallback = FALSE,
                                                      !.fd = file, !.pos = 0]]
         /\ w_pc' = [w_pc EXCEPT ![t] = "writing"]
    ELSE /\ w_job' = [w_job EXCEPT ![t] = NoJob]
         /\ w_pc' = [w_pc EXCEPT ![t] = "idle"]
         /\ UNCHANGED <<dir, ino>>

\* tmp_file.replace(target): the target path names the file the temporary
\* path named; when the temporary path names no file the call raises
WriteReplace(t) ==
    /\ ~crashed
    /\ w_pc[t] = "replace"
    /\ IF dir[tmp_file(w_job[t].target)] = 0
       THEN AfterError(t)
       ELSE /\ dir' = [dir EXCEPT ![w_job[t].target] = dir[tmp_file(w_job[t].target)],
                                  ![tmp_file(w_job[t].target)] = 0]
            /\ w_job' = [w_job EXCEPT ![t] = NoJob]
            /\ w_pc' = [w_pc EXCEPT ![t] = "idle"]
            /\ UNCHANGED ino
    /\ UNCHANGED <<saves, crashed, overlapped, m_pc,
                   cacheVars, selVars, locVars, tradeVars, monVars, dispVars, boostVars, scanVars, thrVars>>

\* the system refuses a write (OSError)
WriteError(t) ==
    /\ ~crashed
    /\ w_pc[t] = "writing"
    /\ AfterError(t)
    /\ UNCHANGED <<saves, crashed, overlapped, m_pc,
                   cacheVars, selVars, locVars, tradeVars, monVars, dispVars, boostVars, scanVars, thrVars>>

\* the process is killed
Crash ==
    /\ ~crashed
    /\ crashed' = TRUE
    /\ UNCHANGED <<dir, ino, w_pc, w_job, saves, overlapped, m_pc,
                   cacheVars, selVars, locVars, tradeVars, monVars, dispVars, boostVars, scanVars, thrVars>>

StorageNext ==
    \/ MonitorStop
    \/ MonitorDonate
    \/ MonitoredLoad
    \/ SaveCache
    \/ \E t \in Threads : SaveData(t)
    \/ CardsFromStorage
    \/ CardsFetched
    \/ BoostCardFile
    \/ \E t \in Threads : WriteChunk(t)
    \/ \E t \in Threads : WriteReplace(t)
    \/ \E t \in Threads : WriteError(t)
    \/ Crash

(***************************************************************************)
(* The dispatch of one trade (trade.py): create_trade_via_api,             *)
(* trade_form_info, submit_trade_form and the counting of lines 657-661.   *)
(* A response is its status code, its Location header as the sequence of   *)
(* the path's segments, what r.json() yields and what r.text holds.  The   *)
(* success phrases of the code are Cyrillic word stems; the model names    *)
(* them "uspesh" (line 351: "успеш"), "otprav" ("отправ") and "sozdan"     *)
(* ("создан").                                                             *)
(***************************************************************************)
Phrases == {"uspesh", "otprav", "sozdan"}

\* a text with at most one success phrase; escaped says that its non-ASCII
\* letters are written as \uXXXX
Text(phrase, escaped) == [phrase |-> phrase, escaped |-> escaped]

\* "phrase" in text
contains(text, phrase) == text.phrase = phrase /\ ~text.escaped

\* what r.json() yields: ValueError, a value that is not a dict, or a dict
NotJson == [kind |-> "invalid", success |-> FALSE, ok |-> FALSE, trade_id |-> 0,
            status |-> "", message |-> ""]

JsonList == [NotJson EXCEPT !.kind = "list"]

JsonDict == [NotJson EXCEPT !.kind = "dict"]

\* json.dumps(j), which writes every non-ASCII letter as \uXXXX
json_dumps(j) == Text(j.message, TRUE)

Body(json, text) == [json |-> json, text |-> text]

NoLocation == <<>>

Locations ==
    {NoLocation, <<"trades", "123">>, <<"trades">>, <<"messages">>, <<"notifications">>,
     <<"offers", "1">>, <<"login">>}

EmptyBody == Body(NotJson, Text("", FALSE))

Bodies ==
    {Body(NotJson, Text(p, FALSE)) : p \in Phrases \cup {""}}
    \cup {Body(JsonList, Text("", FALSE))}
    \cup {Body(j, Text("", FALSE)) :
            j \in {[JsonDict EXCEPT !.success = TRUE], [JsonDict EXCEPT !.ok = TRUE],
                   [JsonDict EXCEPT !.trade_id = 7], [JsonDict EXCEPT !.status = "ok"],
                   [JsonDict EXCEPT !.status = "success"],
                   [JsonDict EXCEPT !.status = "error"]}}
    \cup {Body([JsonDict EXCEPT !.message = p], Text(p, e)) : p \in Phrases, e \in BOOLEAN}

Response(status_code, location, body) ==
    [status_code |-> status_code, location |-> location, body |-> body]

\* the answers of the remote side: redirects, with or without a body, successes
\* and failures with a body
Responses ==
    {Response(st, loc, EmptyBody) : st \in {301, 302}, loc \in Locations}
    \cup {Response(302, <<"trades", "123">>, Body([JsonDict EXCEPT !.status = "error"],
                                                  Text("", FALSE)))}
    \cup {Response(200, NoLocation, b) : b \in Bodies}
    \cup {Response(500, <<"trades", "123">>, EmptyBody)}

\* "/trades/" in Location: a segment trades that is not the last one
in_trades_slash(location) == \E i \in 1..(Len(location) - 1) : location[i] = "trades"

\* "/x" in Location, for the segments of Locations
in_location(x, location) == \E i \in 1..Len(location) : location[i] = x

\* a dispatcher that takes no redirect for a success
redirect_to_trade_ignored(r) == FALSE

\* lines 342 and 366: a redirect to a path with /trades/
redirect_to_trade(r) == r.status_code \in {301, 302} /\ in_trades_slash(r.location)

\* lines 347-349 and 370-372: success, ok or trade.id of a dict
api_json_flag(j) == j.kind = "dict" /\ (j.success \/ j.ok \/ j.trade_id # 0)

\* lines 350-352, 373-375, 492-494: a phrase in json.dumps(j).lower()
dumps_phrase(j) == j.kind = "dict" /\ \E p \in Phrases : contains(json_dumps(j), p)

\* lines 345-357: the primary response after the redirect test
api_primary_body(r) ==
    \/ api_json_flag(r.body.json)
    \/ dumps_phrase(r.body.json)
    \/ \E p \in Phrases : contains(r.body.text, p)

\* lines 366-379: the secondary response
api_secondary(r2) ==
    \/ redirect_to_trade(r2)
    \/ api_json_flag(r2.body.json)
    \/ dumps_phrase(r2.body.json)
    \/ contains(r2.body.text, "uspesh")

\* lines 482-500: the response to the form
form_result(r) ==
    \/ /\ r.status_code \in {301, 302}
       /\ \E x \in {"trades", "messages", "notifications", "offers"} :
            in_location(x, r.location)
    \/ /\ r.body.json.kind = "dict"
       /\ \/ r.body.json.success
          \/ r.body.json.ok
          \/ r.body.json.status \in {"ok", "success"}
    \/ dumps_phrase(r.body.json)
    \/ \E p \in Phrases : contains(r.body.text, p)

\* lines 332-336, 359-363, 469-470: the receiver and the two instance ids a
\* submission carries
Payload(receiver_id, my_instance_id, his_instance_id) ==
    [receiver_id |-> receiver_id, creator |-> my_instance_id, receiver |-> his_instance_id]

Received(via, payload, r) == [via |-> via, payload |-> payload, r |-> r]

\* lines 637-653: what the loop passes to create_trade_via_api and to
\* submit_trade_form
LoopPayload == Payload(owner_at(owners, idx), my_inst, his_inst)

\* post(...) raised requests.RequestException: there is no response
RequestError == Response(0, NoLocation, EmptyBody)

\* lines 630-637: the trade is handed to the dispatcher
DispatchBegin ==
    /\ d_pc \in {"idle", "counted"}
    /\ d_count < MaxDispatches
    /\ d_count' = d_count + 1
    /\ d_pc' = IF use_api THEN "api_primary" ELSE "form_info"
    /\ d_resp' = <<>>
    /\ d_success' = FALSE
    /\ d_body_read' = FALSE
    /\ d_api' = ""
    /\ d_before' = stats.trades_succeeded
    /\ UNCHANGED <<cacheVars, selVars, locVars, tradeVars, monVars, stoVars, boostVars, scanVars, thrVars>>

\* lines 337-357: the form-encoded POST of create_trade_via_api
ApiPrimary ==
    /\ d_pc = "api_primary"
    /\ \/ /\ d_resp' = Append(d_resp, Received("api_primary", LoopPayload, RequestError))
          /\ d_pc' = "form_info"
          /\ d_api' = "False"
          /\ UNCHANGED <<d_success, d_body_read>>
       \/ \E r \in Responses :
            /\ d_resp' = Append(d_resp, Received("api_primary", LoopPayload, r))
            /\ IF redirect_to_trade(r)
               THEN /\ d_success' = TRUE
                    /\ d_pc' = "count"
                    /\ d_api' = "True"
                    /\ UNCHANGED d_body_read
               ELSE /\ d_body_read' = TRUE
                    /\ d_success' = api_primary_body(r)
                    /\ d_pc' = IF api_primary_body(r) THEN "count" ELSE "api_secondary"
                    /\ d_api' = IF api_primary_body(r) THEN "True" ELSE ""
    /\ UNCHANGED <<d_before, d_count, cacheVars, selVars, locVars, tradeVars, monVars, stoVars, boostVars, scanVars, thrVars>>

\* lines 359-382: the JSON-encoded POST of create_trade_via_api
ApiSecondary ==
    /\ d_pc = "api_secondary"
    /\ \/ /\ d_resp' = Append(d_resp, Received("api_secondary", LoopPayload, RequestError))
          /\ d_pc' = "form_info"
          /\ d_api' = "False"
          /\ UNCHANGED d_success
       \/ \E r2 \in Responses :
            /\ d_resp' = Append(d_resp, Received("api_secondary", LoopPayload, r2))
            /\ d_success' = api_secondary(r2)
            /\ d_pc' = IF api_secondary(r2) THEN "count" ELSE "form_info"
            /\ d_api' = IF api_secondary(r2) THEN "True" ELSE "False"
    /\ UNCHANGED <<d_body_read, d_before, d_count,
                   cacheVars, selVars, locVars, tradeVars, monVars, stoVars, boostVars, scanVars, thrVars>>

\* lines 646-648 and 385-436: the form of the partner's offers page, None
\* when the page cannot be fetched or holds no form
FormInfo ==
    /\ d_pc = "form_info"
    /\ \E form \in BOOLEAN : d_pc' = IF form THEN "form_submit" ELSE "count"
    /\ UNCHANGED <<d_resp, d_success, d_body_read, d_api, d_before, d_count,
                   cacheVars, selVars, locVars, tradeVars, monVars, stoVars, boostVars, scanVars, thrVars>>

\* lines 649-653 and 477-500: the POST of the form
FormSubmit ==
    /\ d_pc = "form_submit"
    /\ \/ /\ d_resp' = Append(d_resp, Received("form", LoopPayload, RequestError))
          /\ UNCHANGED d_success
       \/ \E r \in Responses :
            /\ d_resp' = Append(d_resp, Received("form", LoopPayload, r))
            /\ d_success' = form_result(r)
    /\ d_pc' = "count"
    /\ UNCHANGED <<d_body_read, d_api, d_before, d_count,
                   cacheVars, selVars, locVars, tradeVars, monVars, stoVars, boostVars, scanVars, thrVars>>

\* lines 657-661: the trade is counted
DispatchCount ==
    /\ d_pc = "count"
    /\ stats' = IF d_success THEN [stats EXCEPT !.trades_succeeded = @ + 1] ELSE stats
    /\ d_pc' = "counted"
    /\ UNCHANGED <<tr_pc, dry_run, use_api, my_instances, pages_yielded, source_exhausted,
                   owners, idx, tr_now, last_trade_time, his_inst, my_inst, tr_disp,
                   d_resp, d_success, d_body_read, d_api, d_before, d_count,
                   cacheVars, selVars, locVars, monVars, stoVars, boostVars, scanVars, thrVars>>

DispatchNext ==
    \/ DispatchBegin
    \/ ApiPrimary
    \/ ApiSecondary
    \/ FormInfo
    \/ FormSubmit
    \/ DispatchCount

(***************************************************************************)
(* The boost card: BoostMonitor.check_and_process, the boost cards of the  *)
(* card storage and the loop of monitor_boost_with_trades.                  *)
(***************************************************************************)
\* the card ids the boost page can report
BoostIds == CardIds

\* a stored boost card: its card_id and the stamp parsed_at
BoostCard(card_id, parsed_at) == [card_id |-> card_id, parsed_at |-> parsed_at]

\* get_current_boost_card(): the card id of the first card with the greatest
\* parsed_at, None without cards
get_current_boost_card(cards) ==
    IF cards = <<>> THEN None
    ELSE LET k == CHOOSE k \in 1..Len(cards) :
                     /\ \A j \in 1..Len(cards) : cards[j].parsed_at <= cards[k].parsed_at
                     /\ \A j \in 1..(k - 1) : cards[j].parsed_at < cards[k].parsed_at
         IN  cards[k].card_id

\* save_boost_card(card_data) at time t: the first card with the same card_id
\* is replaced where it stands, a new card is appended
save_boost_card(cards, card_id, t) ==
    IF \E i \in 1..Len(cards) : cards[i].card_id = card_id
    THEN LET i == CHOOSE i \in 1..Len(cards) :
                      /\ cards[i].card_id = card_id
                      /\ \A j \in 1..(i - 1) : cards[j].card_id # card_id
         IN  [cards EXCEPT ![i] = BoostCard(card_id, t)]
    ELSE Append(cards, BoostCard(card_id, t))

\* datetime.now() of lines 74 and 84, after it last read t: the local wall
\* clock has advanced, or it was set back since (a naive local time, as at
\* the end of daylight saving time or after a correction of the clock)
datetime_now(t) == (1..(IF t < MaxClock THEN t + 1 ELSE MaxClock)) \ {t}

\* _load_current_card(): the card id of the storage, else of the legacy file
load_current_card(cards, file) ==
    IF get_current_boost_card(cards) # None THEN get_current_boost_card(cards) ELSE file

\* lines 288-303 and 338-346: the page is parsed, a changed card id is taken
\* over, and a donation that has become possible stops the trades
BoostCheck ==
    /\ b_pc = "idle"
    /\ b_checks < MaxChecks
    /\ b_checks' = b_checks + 1
    /\ \E card_id \in BoostIds \cup {None}, page_can_donate \in BOOLEAN :
        /\ IF card_id # None /\ card_id # current_card_id
           THEN /\ current_card_id' = card_id
                /\ b_report' = card_id
           ELSE UNCHANGED <<current_card_id, b_report>>
        /\ IF page_can_donate /\ ~can_donate
           THEN /\ can_donate' = TRUE
                /\ should_stop_trades' = TRUE
                /\ b_pc' = "donating"
           ELSE UNCHANGED <<can_donate, should_stop_trades, b_pc>>
    /\ UNCHANGED <<boost_cards, card_file, b_clock, b_target, b_saved,
                   mon_pc, mon_runs, trades_paused, stop_mark, mon_last_end, cacheVars, selVars, locVars, tradeVars, stoVars, dispVars, scanVars, thrVars>>

\* lines 306-338: the donation, and after it the new card of the boost page
\* found by find_boost_card_info, read back from card_for_boost.json and
\* saved; find_boost_card_info saves it itself on one side of the unmerged
\* conflict of club.py (line 228) and not on the other
BoostDonate ==
    /\ b_pc = "donating"
    /\ b_pc' = "idle"
    /\ can_donate' = FALSE
    /\ \E donated \in BOOLEAN, res \in BoostIds \cup {None},
          stored_by_find \in BOOLEAN, readable \in BOOLEAN :
        IF donated /\ res # None
        THEN \E t1 \in datetime_now(b_clock) : \E t2 \in datetime_now(t1) :
             LET by_find == IF stored_by_find
                            THEN save_boost_card(boost_cards, res, t1)
                            ELSE boost_cards
             IN  /\ current_card_id' = res
                 /\ card_file' = res
                 /\ boost_cards' = IF readable
                                   THEN save_boost_card(by_find, res, t2)
                                   ELSE by_find
                 /\ b_clock' = t2
                 /\ b_saved' = IF stored_by_find \/ readable THEN res ELSE b_saved
                 /\ should_stop_trades' = FALSE
                 /\ b_report' = IF res # current_card_id THEN res ELSE b_report
        ELSE /\ ~stored_by_find /\ ~readable
             /\ donated => res = None
             /\ UNCHANGED <<current_card_id, card_file, boost_cards, b_clock, b_saved,
                            should_stop_trades, b_report>>
    /\ UNCHANGED <<b_target, b_checks, mon_pc, mon_runs, trades_paused, stop_mark, mon_last_end,
                   cacheVars, selVars, locVars, tradeVars, stoVars, dispVars, scanVars, thrVars>>

\* lines 426-460: unless the trades are paused, the current boost card of the
\* storage (else the card of the legacy file, saved to the storage) becomes
\* the target of the next run of the trades
BoostRun ==
    /\ b_pc \in {"idle", "donating"}
    /\ ~should_stop_trades
    /\ LET current == get_current_boost_card(boost_cards) IN
       IF current # None
       THEN /\ b_target' = current
            /\ UNCHANGED <<boost_cards, b_clock, b_saved>>
       ELSE /\ card_file # None
            /\ \E t \in datetime_now(b_clock) :
                 /\ boost_cards' = save_boost_card(boost_cards, card_file, t)
                 /\ b_clock' = t
            /\ b_saved' = card_file
            /\ b_target' = card_file
    /\ UNCHANGED <<current_card_id, card_file, b_pc, b_report, b_checks, monVars,
                   cacheVars, selVars, locVars, tradeVars, stoVars, dispVars, scanVars, thrVars>>

BoostNext == BoostCheck \/ BoostDonate \/ BoostRun

(***************************************************************************)
(* The monitor thread of BoostMonitor: start_monitoring, stop_monitoring   *)
(* and monitor_loop (boost_monitor.py lines 348-391)                       *)
(***************************************************************************)
LoopThreads == 1..MaxStarts

\* the thread threading.Thread(...) creates next
next_thread(pc) == CHOOSE t \in LoopThreads :
                      pc[t] = "unborn" /\ \A u \in LoopThreads : pc[u] = "unborn" => t <= u

\* lines 350-379: start_monitoring returns at once while monitoring is set;
\* else it sets it, clears the stop event and starts a new monitor_loop
StartMonitoring ==
    /\ caller_pc = "idle"
    /\ ~monitoring
    /\ \E t \in LoopThreads : loop_pc[t] = "unborn"
    /\ monitoring' = TRUE
    /\ stop_event' = FALSE
    /\ monitor_thread' = next_thread(loop_pc)
    /\ loop_pc' = [loop_pc EXCEPT ![next_thread(loop_pc)] = "test"]
    /\ UNCHANGED <<caller_pc, cacheVars, selVars, locVars, tradeVars, monVars, stoVars,
                   dispVars, boostVars, scanVars>>

\* lines 383-390: stop_monitoring returns at once unless monitoring is set;
\* else it clears it, sets the stop event and joins the thread
StopMonitoring ==
    /\ caller_pc = "idle"
    /\ monitoring
    /\ monitoring' = FALSE
    /\ stop_event' = TRUE
    /\ caller_pc' = IF monitor_thread # 0 THEN "join" ELSE "idle"
    /\ UNCHANGED <<monitor_thread, loop_pc, cacheVars, selVars, locVars, tradeVars, monVars,
                   stoVars, dispVars, boostVars, scanVars>>

\* lines 390-391: join(timeout=2.0) returns when the thread has ended, or
\* after two seconds while the thread is still inside check_and_process
StopJoinReturns ==
    /\ caller_pc = "join"
    /\ loop_pc[monitor_thread] \in {"ended", "check"}
    /\ monitor_thread' = 0
    /\ caller_pc' = "idle"
    /\ UNCHANGED <<monitoring, stop_event, loop_pc, cacheVars, selVars, locVars, tradeVars,
                   monVars, stoVars, dispVars, boostVars, scanVars>>

\* line 360: while not self._stop_event.is_set()
LoopTest(t) ==
    /\ loop_pc[t] = "test"
    /\ loop_pc' = [loop_pc EXCEPT ![t] = IF stop_event THEN "ended" ELSE "check"]
    /\ UNCHANGED <<monitoring, stop_event, monitor_thread, caller_pc, cacheVars, selVars,
                   locVars, tradeVars, monVars, stoVars, dispVars, boostVars, scanVars>>

\* lines 361-372: check_and_process returns or raises
LoopCheck(t) ==
    /\ loop_pc[t] = "check"
    /\ loop_pc' = [loop_pc EXCEPT ![t] = "wait"]
    /\ UNCHANGED <<monitoring, stop_event, monitor_thread, caller_pc, cacheVars, selVars,
                   locVars, tradeVars, monVars, stoVars, dispVars, boostVars, scanVars>>

\* line 375: self._stop_event.wait(check_interval) returns, because the event
\* is set or because the interval has passed
LoopWait(t) ==
    /\ loop_pc[t] = "wait"
    /\ loop_pc' = [loop_pc EXCEPT ![t] = "test"]
    /\ UNCHANGED <<monitoring, stop_event, monitor_thread, caller_pc, cacheVars, selVars,
                   locVars, tradeVars, monVars, stoVars, dispVars, boostVars, scanVars>>

ThreadsNext ==
    \/ StartMonitoring
    \/ StopMonitoring
    \/ StopJoinReturns
    \/ \E t \in LoopThreads : LoopTest(t)
    \/ \E t \in LoopThreads : LoopCheck(t)
    \/ \E t \in LoopThreads : LoopWait(t)

(***************************************************************************)
(* Specifications                                                          *)
(***************************************************************************)
vars == <<cacheVars, selVars, locVars, tradeVars, monVars, stoVars, dispVars, boostVars, scanVars, thrVars>>

InitCache ==
    /\ now = 0
    /\ ticks = 0
    /\ cache_data = EmptyCache
    /\ cache_file = EmptyCache
    /\ cache_last = NoOp
    /\ sel_pc = "idle"
    /\ my_cards = <<>>
    /\ target_card = [rank |-> <<>>, wanters_count |-> 0]
    /\ suitable_cards = <<>>
    /\ attempt = 0
    /\ rejected_cards = <<>>
    /\ sel_result = NoResult
    /\ sel_lookups = 0
    /\ timeout_limit = 1
    /\ loc_pc = "off"
    /\ loc_args = NoArgs
    /\ blocked = {}
    /\ timeouts = NoTimeouts
    /\ ajax = NoAjax
    /\ paging = NoPaging
    /\ loc_result = 0
    /\ loc_requests = 0
    /\ run_blocked = {}
    /\ loc_calls = 0
    /\ offers_hit = FALSE
    /\ loc_tried = <<>>
    /\ loc_last = NoLast
    /\ tr_pc = "off"
    /\ dry_run = TRUE
    /\ use_api = TRUE
    /\ my_instances = <<>>
    /\ pages_yielded = 0
    /\ source_exhausted = FALSE
    /\ owners = <<>>
    /\ idx = 0
    /\ stats = NoStats
    /\ tr_now = 0
    /\ last_trade_time = 0
    /\ his_inst = 0
    /\ my_inst = 0
    /\ tr_disp = NoDispatch
    /\ should_stop_trades = FALSE
    /\ can_donate = FALSE
    /\ mon_pc = "idle"
    /\ mon_runs = 0
    /\ trades_paused = FALSE
    /\ stop_mark = NoMark
    /\ mon_last_end = None
    /\ dir = InitialDir
    /\ ino = InitialFiles
    /\ w_pc = [t \in Threads |-> "idle"]
    /\ w_job = [t \in Threads |-> NoJob]
    /\ saves = 0
    /\ crashed = FALSE
    /\ overlapped = FALSE
    /\ m_pc = "check"
    /\ d_pc = "idle"
    /\ d_resp = <<>>
    /\ d_success = FALSE
    /\ d_body_read = FALSE
    /\ d_api = ""
    /\ d_before = 0
    /\ d_count = 0
    /\ current_card_id = None
    /\ boost_cards = <<>>
    /\ card_file = None
    /\ b_clock = 0
    /\ b_pc = "off"
    /\ b_target = None
    /\ b_report = None
    /\ b_checks = 0
    /\ b_saved = None
    /\ scan_seen = NoPages
    /\ monitoring = FALSE
    /\ stop_event = FALSE
    /\ monitor_thread = 0
    /\ loop_pc = [t \in LoopThreads |-> "unborn"]
    /\ caller_pc = "idle"

SpecCache == InitCache /\ [][CacheNext]_vars

InitSelector ==
    /\ now = CACHE_LIFETIME_HOURS * 3600 + 1
    /\ ticks = 0
    /\ cache_data \in SelCaches(now)
    /\ cache_file = cache_data
    /\ cache_last = NoOp
    /\ sel_pc = "start"
    /\ my_cards \in Inventories
    /\ target_card \in TargetCards
    /\ suitable_cards = <<>>
    /\ attempt = 0
    /\ rejected_cards = <<>>
    /\ sel_result = NoResult
    /\ sel_lookups = 0
    /\ timeout_limit = 1
    /\ loc_pc = "off"
    /\ loc_args = NoArgs
    /\ blocked = {}
    /\ timeouts = NoTimeouts
    /\ ajax = NoAjax
    /\ paging = NoPaging
    /\ loc_result = 0
    /\ loc_requests = 0
    /\ run_blocked = {}
    /\ loc_calls = 0
    /\ offers_hit = FALSE
    /\ loc_tried = <<>>
    /\ loc_last = NoLast
    /\ tr_pc = "off"
    /\ dry_run = TRUE
    /\ use_api = TRUE
    /\ my_instances = <<>>
    /\ pages_yielded = 0
    /\ source_exhausted = FALSE
    /\ owners = <<>>
    /\ idx = 0
    /\ stats = NoStats
    /\ tr_now = 0
    /\ last_trade_time = 0
    /\ his_inst = 0
    /\ my_inst = 0
    /\ tr_disp = NoDispatch
    /\ should_stop_trades = FALSE
    /\ can_donate = FALSE
    /\ mon_pc = "idle"
    /\ mon_runs = 0
    /\ trades_paused = FALSE
    /\ stop_mark = NoMark
    /\ mon_last_end = None
    /\ dir = InitialDir
    /\ ino = InitialFiles
    /\ w_pc = [t \in Threads |-> "idle"]
    /\ w_job = [t \in Threads |-> NoJob]
    /\ saves = 0
    /\ crashed = FALSE
    /\ overlapped = FALSE
    /\ m_pc = "check"
    /\ d_pc = "idle"
    /\ d_resp = <<>>
    /\ d_success = FALSE
    /\ d_body_read = FALSE
    /\ d_api = ""
    /\ d_before = 0
    /\ d_count = 0
    /\ current_card_id = None
    /\ boost_cards = <<>>
    /\ card_file = None
    /\ b_clock = 0
    /\ b_pc = "off"
    /\ b_target = None
    /\ b_report = None
    /\ b_checks = 0
    /\ b_saved = None
    /\ scan_seen = NoPages
    /\ monitoring = FALSE
    /\ stop_event = FALSE
    /\ monitor_thread = 0
    /\ loop_pc = [t \in LoopThreads |-> "unborn"]
    /\ caller_pc = "idle"

SpecSelector == InitSelector /\ [][SelNext]_vars

InitLocator ==
    /\ now = 0
    /\ ticks = 0
    /\ cache_data = EmptyCache
    /\ cache_file = EmptyCache
    /\ cache_last = NoOp
    /\ sel_pc = "idle"
    /\ my_cards = <<>>
    /\ target_card = [rank |-> <<>>, wanters_count |-> 0]
    /\ suitable_cards = <<>>
    /\ attempt = 0
    /\ rejected_cards = <<>>
    /\ sel_result = NoResult
    /\ sel_lookups = 0
    /\ timeout_limit \in 1..MaxTimeoutLimit
    /\ loc_pc = "idle"
    /\ loc_args = NoArgs
    /\ blocked = {}
    /\ timeouts = NoTimeouts
    /\ ajax = NoAjax
    /\ paging = NoPaging
    /\ loc_result = 0
    /\ loc_requests = 0
    /\ run_blocked = {}
    /\ loc_calls = 0
    /\ offers_hit = FALSE
    /\ loc_tried = <<>>
    /\ loc_last = NoLast
    /\ tr_pc = "off"
    /\ dry_run = TRUE
    /\ use_api = TRUE
    /\ my_instances = <<>>
    /\ pages_yielded = 0
    /\ source_exhausted = FALSE
    /\ owners = <<>>
    /\ idx = 0
    /\ stats = NoStats
    /\ tr_now = 0
    /\ last_trade_time = 0
    /\ his_inst = 0
    /\ my_inst = 0
    /\ tr_disp = NoDispatch
    /\ should_stop_trades = FALSE
    /\ can_donate = FALSE
    /\ mon_pc = "idle"
    /\ mon_runs = 0
    /\ trades_paused = FALSE
    /\ stop_mark = NoMark
    /\ mon_last_end = None
    /\ dir = InitialDir
    /\ ino = InitialFiles
    /\ w_pc = [t \in Threads |-> "idle"]
    /\ w_job = [t \in Threads |-> NoJob]
    /\ saves = 0
    /\ crashed = FALSE
    /\ overlapped = FALSE
    /\ m_pc = "check"
    /\ d_pc = "idle"
    /\ d_resp = <<>>
    /\ d_success = FALSE
    /\ d_body_read = FALSE
    /\ d_api = ""
    /\ d_before = 0
    /\ d_count = 0
    /\ current_card_id = None
    /\ boost_cards = <<>>
    /\ card_file = None
    /\ b_clock = 0
    /\ b_pc = "off"
    /\ b_target = None
    /\ b_report = None
    /\ b_checks = 0
    /\ b_saved = None
    /\ scan_seen = NoPages
    /\ monitoring = FALSE
    /\ stop_event = FALSE
    /\ monitor_thread = 0
    /\ loop_pc = [t \in LoopThreads |-> "unborn"]
    /\ caller_pc = "idle"

SpecLocator == InitLocator /\ [][LocNext]_vars

InitTrade ==
    /\ now = 0
    /\ ticks = 0
    /\ cache_data = EmptyCache
    /\ cache_file = EmptyCache
    /\ cache_last = NoOp
    /\ sel_pc = "idle"
    /\ my_cards \in LoopInventories
    /\ target_card \in LoopTargets
    /\ target_card.rank = <<>> => Len(my_cards) = 2 /\ my_cards[2].rank = <<"A">>
    /\ suitable_cards = <<>>
    /\ attempt = 0
    /\ rejected_cards = <<>>
    /\ sel_result = NoResult
    /\ sel_lookups = 0
    /\ timeout_limit = 1
    /\ loc_pc = "off"
    /\ loc_args = NoArgs
    /\ blocked = {}
    /\ timeouts = NoTimeouts
    /\ ajax = NoAjax
    /\ paging = NoPaging
    /\ loc_result = 0
    /\ loc_requests = 0
    /\ run_blocked = {}
    /\ loc_calls = 0
    /\ offers_hit = FALSE
    /\ loc_tried = <<>>
    /\ loc_last = NoLast
    /\ tr_pc = "start"
    /\ dry_run \in BOOLEAN
    /\ use_api \in BOOLEAN
    /\ dry_run => use_api
    /\ my_instances = <<>>
    /\ pages_yielded = 0
    /\ source_exhausted = FALSE
    /\ owners = <<>>
    /\ idx = 0
    /\ stats = NoStats
    /\ tr_now = StartTime
    /\ last_trade_time = 0
    /\ his_inst = 0
    /\ my_inst = 0
    /\ tr_disp = NoDispatch
    /\ should_stop_trades = FALSE
    /\ can_donate = FALSE
    /\ mon_pc = "idle"
    /\ mon_runs = 0
    /\ trades_paused = FALSE
    /\ stop_mark = NoMark
    /\ mon_last_end = None
    /\ dir = InitialDir
    /\ ino = InitialFiles
    /\ w_pc = [t \in Threads |-> "idle"]
    /\ w_job = [t \in Threads |-> NoJob]
    /\ saves = 0
    /\ crashed = FALSE
    /\ overlapped = FALSE
    /\ m_pc = "check"
    /\ d_pc = "idle"
    /\ d_resp = <<>>
    /\ d_success = FALSE
    /\ d_body_read = FALSE
    /\ d_api = ""
    /\ d_before = 0
    /\ d_count = 0
    /\ current_card_id = None
    /\ boost_cards = <<>>
    /\ card_file = None
    /\ b_clock = 0
    /\ b_pc = "off"
    /\ b_target = None
    /\ b_report = None
    /\ b_checks = 0
    /\ b_saved = None
    /\ scan_seen = NoPages
    /\ monitoring = FALSE
    /\ stop_event = FALSE
    /\ monitor_thread = 0
    /\ loop_pc = [t \in LoopThreads |-> "unborn"]
    /\ caller_pc = "idle"

SpecTrade == InitTrade /\ [][TradeNext]_vars

InitMonitored ==
    /\ now = 0
    /\ ticks = 0
    /\ cache_data = EmptyCache
    /\ cache_file = EmptyCache
    /\ cache_last = NoOp
    /\ sel_pc = "idle"
    /\ my_cards = <<Entry(0, 1, <<"B">>, <<>>, NoDict), Entry(6, 1, <<"B">>, <<>>, NoDict)>>
    /\ target_card = [rank |-> <<"B">>, wanters_count |-> 0, card_id |-> 1]
    /\ suitable_cards = <<>>
    /\ attempt = 0
    /\ rejected_cards = <<>>
    /\ sel_result = NoResult
    /\ sel_lookups = 0
    /\ timeout_limit = 1
    /\ loc_pc = "off"
    /\ loc_args = NoArgs
    /\ blocked = {}
    /\ timeouts = NoTimeouts
    /\ ajax = NoAjax
    /\ paging = NoPaging
    /\ loc_result = 0
    /\ loc_requests = 0
    /\ run_blocked = {}
    /\ loc_calls = 0
    /\ offers_hit = FALSE
    /\ loc_tried = <<>>
    /\ loc_last = NoLast
    /\ tr_pc = "idle"
    /\ dry_run \in BOOLEAN
    /\ use_api \in BOOLEAN
    /\ dry_run => use_api
    /\ my_instances = <<>>
    /\ pages_yielded = 0
    /\ source_exhausted = FALSE
    /\ owners = <<>>
    /\ idx = 0
    /\ stats = NoStats
    /\ tr_now = StartTime
    /\ last_trade_time = 0
    /\ his_inst = 0
    /\ my_inst = 0
    /\ tr_disp = NoDispatch
    /\ should_stop_trades = FALSE
    /\ can_donate = FALSE
    /\ mon_pc = "idle"
    /\ mon_runs = 0
    /\ trades_paused = FALSE
    /\ stop_mark = NoMark
    /\ mon_last_end = None
    /\ dir = InitialDir
    /\ ino = InitialFiles
    /\ w_pc = [t \in Threads |-> "idle"]
    /\ w_job = [t \in Threads |-> NoJob]
    /\ saves = 0
    /\ crashed = FALSE
    /\ overlapped = FALSE
    /\ m_pc = "check"
    /\ d_pc = "idle"
    /\ d_resp = <<>>
    /\ d_success = FALSE
    /\ d_body_read = FALSE
    /\ d_api = ""
    /\ d_before = 0
    /\ d_count = 0
    /\ current_card_id = None
    /\ boost_cards = <<>>
    /\ card_file = None
    /\ b_clock = 0
    /\ b_pc = "off"
    /\ b_target = None
    /\ b_report = None
    /\ b_checks = 0
    /\ b_saved = None
    /\ scan_seen = NoPages
    /\ monitoring = FALSE
    /\ stop_event = FALSE
    /\ monitor_thread = 0
    /\ loop_pc = [t \in LoopThreads |-> "unborn"]
    /\ caller_pc = "idle"

SpecMonitored == InitMonitored /\ [][MonitoredNext]_vars

SpecPasses == InitMonitored /\ [][PassesNext]_vars

InitStorage ==
    /\ now = 0
    /\ ticks = 0
    /\ cache_data = EmptyCache
    /\ cache_file = EmptyCache
    /\ cache_last = NoOp
    /\ sel_pc = "idle"
    /\ my_cards = <<Entry(0, 1, <<"B">>, <<>>, NoDict), Entry(6, 1, <<"B">>, <<>>, NoDict)>>
    /\ target_card = [rank |-> <<"B">>, wanters_count |-> 0, card_id |-> 1]
    /\ suitable_cards = <<>>
    /\ attempt = 0
    /\ rejected_cards = <<>>
    /\ sel_result = NoResult
    /\ sel_lookups = 0
    /\ timeout_limit = 1
    /\ loc_pc = "off"
    /\ loc_args = NoArgs
    /\ blocked = {}
    /\ timeouts = NoTimeouts
    /\ ajax = NoAjax
    /\ paging = NoPaging
    /\ loc_result = 0
    /\ loc_requests = 0
    /\ run_blocked = {}
    /\ loc_calls = 0
    /\ offers_hit = FALSE
    /\ loc_tried = <<>>
    /\ loc_last = NoLast
    /\ tr_pc = "idle"
    /\ dry_run \in BOOLEAN
    /\ use_api \in BOOLEAN
    /\ dry_run => use_api
    /\ my_instances = <<>>
    /\ pages_yielded = 0
    /\ source_exhausted = FALSE
    /\ owners = <<>>
    /\ idx = 0
    /\ stats = NoStats
    /\ tr_now = StartTime
    /\ last_trade_time = 0
    /\ his_inst = 0
    /\ my_inst = 0
    /\ tr_disp = NoDispatch
    /\ should_stop_trades = FALSE
    /\ can_donate = FALSE
    /\ mon_pc = "idle"
    /\ mon_runs = 0
    /\ trades_paused = FALSE
    /\ stop_mark = NoMark
    /\ mon_last_end = None
    /\ dir = InitialDir
    /\ ino = InitialFiles
    /\ w_pc = [t \in Threads |-> "idle"]
    /\ w_job = [t \in Threads |-> NoJob]
    /\ saves = 0
    /\ crashed = FALSE
    /\ overlapped = FALSE
    /\ m_pc = "check"
    /\ d_pc = "idle"
    /\ d_resp = <<>>
    /\ d_success = FALSE
    /\ d_body_read = FALSE
    /\ d_api = ""
    /\ d_before = 0
    /\ d_count = 0
    /\ current_card_id = None
    /\ boost_cards = <<>>
    /\ card_file = None
    /\ b_clock = 0
    /\ b_pc = "off"
    /\ b_target = None
    /\ b_report = None
    /\ b_checks = 0
    /\ b_saved = None
    /\ scan_seen = NoPages
    /\ monitoring = FALSE
    /\ stop_event = FALSE
    /\ monitor_thread = 0
    /\ loop_pc = [t \in LoopThreads |-> "unborn"]
    /\ caller_pc = "idle"

SpecStorage == InitStorage /\ [][StorageNext]_vars

InitDispatch ==
    /\ now = 0
    /\ ticks = 0
    /\ cache_data = EmptyCache
    /\ cache_file = EmptyCache
    /\ cache_last = NoOp
    /\ sel_pc = "idle"
    /\ my_cards = <<Entry(0, 1, <<"B">>, <<>>, NoDict), Entry(6, 1, <<"B">>, <<>>, NoDict)>>
    /\ target_card = [rank |-> <<"B">>, wanters_count |-> 0, card_id |-> 1]
    /\ suitable_cards = <<>>
    /\ attempt = 0
    /\ rejected_cards = <<>>
    /\ sel_result = NoResult
    /\ sel_lookups = 0
    /\ timeout_limit = 1
    /\ loc_pc = "off"
    /\ loc_args = NoArgs
    /\ blocked = {}
    /\ timeouts = NoTimeouts
    /\ ajax = NoAjax
    /\ paging = NoPaging
    /\ loc_result = 0
    /\ loc_requests = 0
    /\ run_blocked = {}
    /\ loc_calls = 0
    /\ offers_hit = FALSE
    /\ loc_tried = <<>>
    /\ loc_last = NoLast
    /\ tr_pc = "dispatch"
    /\ dry_run = FALSE
    /\ use_api \in BOOLEAN
    /\ dry_run => use_api
    /\ my_instances = <<>>
    /\ pages_yielded = 0
    /\ source_exhausted = FALSE
    /\ owners = <<1>>
    /\ idx = 1
    /\ stats = NoStats
    /\ tr_now = StartTime
    /\ last_trade_time = 0
    /\ his_inst = FoundInstance
    /\ my_inst = 6
    /\ tr_disp = NoDispatch
    /\ should_stop_trades = FALSE
    /\ can_donate = FALSE
    /\ mon_pc = "idle"
    /\ mon_runs = 0
    /\ trades_paused = FALSE
    /\ stop_mark = NoMark
    /\ mon_last_end = None
    /\ dir = InitialDir
    /\ ino = InitialFiles
    /\ w_pc = [t \in Threads |-> "idle"]
    /\ w_job = [t \in Threads |-> NoJob]
    /\ saves = 0
    /\ crashed = FALSE
    /\ overlapped = FALSE
    /\ m_pc = "check"
    /\ d_pc = "idle"
    /\ d_resp = <<>>
    /\ d_success = FALSE
    /\ d_body_read = FALSE
    /\ d_api = ""
    /\ d_before = 0
    /\ d_count = 0
    /\ current_card_id = None
    /\ boost_cards = <<>>
    /\ card_file = None
    /\ b_clock = 0
    /\ b_pc = "off"
    /\ b_target = None
    /\ b_report = None
    /\ b_checks = 0
    /\ b_saved = None
    /\ scan_seen = NoPages
    /\ monitoring = FALSE
    /\ stop_event = FALSE
    /\ monitor_thread = 0
    /\ loop_pc = [t \in LoopThreads |-> "unborn"]
    /\ caller_pc = "idle"

SpecDispatch == InitDispatch /\ [][DispatchNext]_vars

InitBoost ==
    /\ now = 0
    /\ ticks = 0
    /\ cache_data = EmptyCache
    /\ cache_file = EmptyCache
    /\ cache_last = NoOp
    /\ sel_pc = "idle"
    /\ my_cards = <<Entry(0, 1, <<"B">>, <<>>, NoDict), Entry(6, 1, <<"B">>, <<>>, NoDict)>>
    /\ target_card = [rank |-> <<"B">>, wanters_count |-> 0, card_id |-> 1]
    /\ suitable_cards = <<>>
    /\ attempt = 0
    /\ rejected_cards = <<>>
    /\ sel_result = NoResult
    /\ sel_lookups = 0
    /\ timeout_limit = 1
    /\ loc_pc = "off"
    /\ loc_args = NoArgs
    /\ blocked = {}
    /\ timeouts = NoTimeouts
    /\ ajax = NoAjax
    /\ paging = NoPaging
    /\ loc_result = 0
    /\ loc_requests = 0
    /\ run_blocked = {}
    /\ loc_calls = 0
    /\ offers_hit = FALSE
    /\ loc_tried = <<>>
    /\ loc_last = NoLast
    /\ tr_pc = "idle"
    /\ dry_run = FALSE
    /\ use_api = TRUE
    /\ dry_run => use_api
    /\ my_instances = <<>>
    /\ pages_yielded = 0
    /\ source_exhausted = FALSE
    /\ owners = <<1>>
    /\ idx = 1
    /\ stats = NoStats
    /\ tr_now = StartTime
    /\ last_trade_time = 0
    /\ his_inst = FoundInstance
    /\ my_inst = 6
    /\ tr_disp = NoDispatch
    /\ should_stop_trades = FALSE
    /\ can_donate = FALSE
    /\ mon_pc = "idle"
    /\ mon_runs = 0
    /\ trades_paused = FALSE
    /\ stop_mark = NoMark
    /\ mon_last_end = None
    /\ dir = InitialDir
    /\ ino = InitialFiles
    /\ w_pc = [t \in Threads |-> "idle"]
    /\ w_job = [t \in Threads |-> NoJob]
    /\ saves = 0
    /\ crashed = FALSE
    /\ overlapped = FALSE
    /\ m_pc = "check"
    /\ d_pc = "idle"
    /\ d_resp = <<>>
    /\ d_success = FALSE
    /\ d_body_read = FALSE
    /\ d_api = ""
    /\ d_before = 0
    /\ d_count = 0
    /\ boost_cards \in {<<>>} \cup {<<BoostCard(c, 0)>> : c \in BoostIds}
    /\ card_file \in BoostIds \cup {None}
    /\ current_card_id = load_current_card(boost_cards, card_file)
    /\ b_clock = 0
    /\ b_pc = "idle"
    /\ b_target = None
    /\ b_report = None
    /\ b_checks = 0
    /\ b_saved = None
    /\ scan_seen = NoPages
    /\ monitoring = FALSE
    /\ stop_event = FALSE
    /\ monitor_thread = 0
    /\ loop_pc = [t \in LoopThreads |-> "unborn"]
    /\ caller_pc = "idle"

SpecBoost == InitBoost /\ [][BoostNext]_vars

InitScan ==
    /\ now = 0
    /\ ticks = 0
    /\ cache_data = EmptyCache
    /\ cache_file = EmptyCache
    /\ cache_last = NoOp
    /\ sel_pc = "idle"
    /\ my_cards = <<>>
    /\ target_card = [rank |-> <<>>, wanters_count |-> 0]
    /\ suitable_cards = <<>>
    /\ attempt = 0
    /\ rejected_cards = <<>>
    /\ sel_result = NoResult
    /\ sel_lookups = 0
    /\ timeout_limit \in 1..MaxTimeoutLimit
    /\ loc_pc = "scan"
    /\ loc_args \in {[NoArgs EXCEPT !.partner = p, !.card_id = 1] : p \in Partners}
    /\ blocked \in SUBSET Partners
    /\ timeouts \in EarlierTimeouts(blocked, timeout_limit)
    /\ ajax = NoAjax
    /\ paging = NoPaging
    /\ loc_result = 0
    /\ loc_requests = 0
    /\ run_blocked = {}
    /\ loc_calls = 0
    /\ offers_hit = FALSE
    /\ loc_tried = <<>>
    /\ loc_last = NoLast
    /\ tr_pc = "off"
    /\ dry_run = TRUE
    /\ use_api = TRUE
    /\ my_instances = <<>>
    /\ pages_yielded = 0
    /\ source_exhausted = FALSE
    /\ owners = <<>>
    /\ idx = 0
    /\ stats = NoStats
    /\ tr_now = 0
    /\ last_trade_time = 0
    /\ his_inst = 0
    /\ my_inst = 0
    /\ tr_disp = NoDispatch
    /\ should_stop_trades = FALSE
    /\ can_donate = FALSE
    /\ mon_pc = "idle"
    /\ mon_runs = 0
    /\ trades_paused = FALSE
    /\ stop_mark = NoMark
    /\ mon_last_end = None
    /\ dir = InitialDir
    /\ ino = InitialFiles
    /\ w_pc = [t \in Threads |-> "idle"]
    /\ w_job = [t \in Threads |-> NoJob]
    /\ saves = 0
    /\ crashed = FALSE
    /\ overlapped = FALSE
    /\ m_pc = "check"
    /\ d_pc = "idle"
    /\ d_resp = <<>>
    /\ d_success = FALSE
    /\ d_body_read = FALSE
    /\ d_api = ""
    /\ d_before = 0
    /\ d_count = 0
    /\ current_card_id = None
    /\ boost_cards = <<>>
    /\ card_file = None
    /\ b_clock = 0
    /\ b_pc = "off"
    /\ b_target = None
    /\ b_report = None
    /\ b_checks = 0
    /\ b_saved = None
    /\ scan_seen = NoPages
    /\ monitoring = FALSE
    /\ stop_event = FALSE
    /\ monitor_thread = 0
    /\ loop_pc = [t \in LoopThreads |-> "unborn"]
    /\ caller_pc = "idle"

SpecScan == InitScan /\ [][ScanNext]_vars /\ WF_vars(ScanNext)

InitThreads ==
    /\ now = 0
    /\ ticks = 0
    /\ cache_data = EmptyCache
    /\ cache_file = EmptyCache
    /\ cache_last = NoOp
    /\ sel_pc = "idle"
    /\ my_cards = <<>>
    /\ target_card = [rank |-> <<>>, wanters_count |-> 0]
    /\ suitable_cards = <<>>
    /\ attempt = 0
    /\ rejected_cards = <<>>
    /\ sel_result = NoResult
    /\ sel_lookups = 0
    /\ timeout_limit = 1
    /\ loc_pc = "idle"
    /\ loc_args = NoArgs
    /\ blocked = {}
    /\ timeouts = NoTimeouts
    /\ ajax = NoAjax
    /\ paging = NoPaging
    /\ loc_result = 0
    /\ loc_requests = 0
    /\ run_blocked = {}
    /\ loc_calls = 0
    /\ offers_hit = FALSE
    /\ loc_tried = <<>>
    /\ loc_last = NoLast
    /\ tr_pc = "off"
    /\ dry_run = TRUE
    /\ use_api = TRUE
    /\ my_instances = <<>>
    /\ pages_yielded = 0
    /\ source_exhausted = FALSE
    /\ owners = <<>>
    /\ idx = 0
    /\ stats = NoStats
    /\ tr_now = 0
    /\ last_trade_time = 0
    /\ his_inst = 0
    /\ my_inst = 0
    /\ tr_disp = NoDispatch
    /\ should_stop_trades = FALSE
    /\ can_donate = FALSE
    /\ mon_pc = "idle"
    /\ mon_runs = 0
    /\ trades_paused = FALSE
    /\ stop_mark = NoMark
    /\ mon_last_end = None
    /\ dir = InitialDir
    /\ ino = InitialFiles
    /\ w_pc = [t \in Threads |-> "idle"]
    /\ w_job = [t \in Threads |-> NoJob]
    /\ saves = 0
    /\ crashed = FALSE
    /\ overlapped = FALSE
    /\ m_pc = "check"
    /\ d_pc = "idle"
    /\ d_resp = <<>>
    /\ d_success = FALSE
    /\ d_body_read = FALSE
    /\ d_api = ""
    /\ d_before = 0
    /\ d_count = 0
    /\ current_card_id = None
    /\ boost_cards = <<>>
    /\ card_file = None
    /\ b_clock = 0
    /\ b_pc = "off"
    /\ b_target = None
    /\ b_report = None
    /\ b_checks = 0
    /\ b_saved = None
    /\ scan_seen = NoPages
    /\ monitoring = FALSE
    /\ stop_event = FALSE
    /\ monitor_thread = 0
    /\ loop_pc = [t \in LoopThreads |-> "unborn"]
    /\ caller_pc = "idle"

SpecThreads == InitThreads /\ [][ThreadsNext]_vars

(***************************************************************************)
(* Claims about the card selector                                          *)
(***************************************************************************)
SelDone == sel_pc = "done"

\* the inventory entry the selector returned
ReturnedEntries ==
    {i \in 1..Len(my_cards) : entry_instance_id(my_cards[i]) = sel_result.instance_id}

\* the tolerance band of the acceptance rule, written out
InBand(t, w) ==
    IF t = 0 THEN w <= 3
    ELSE (7 * t) \div 10 <= w /\ w <= (11 * t) \div 10

\* the wanters counts the call resolved for rejected candidates
RejectedIds == {rejected_cards[k][1] : k \in 1..Len(rejected_cards)}

\* C2: whenever the selector returns an instance, the returned inventory
\* entry has the target's rank.
Thm_C2_ReturnedRankMatches ==
    (SelDone /\ sel_result.found) =>
        /\ ReturnedEntries # {}
        /\ \A i \in ReturnedEntries : card_rank_of(my_cards[i]) = target_rank_of(target_card)

\* C2 witness: a card is returned from an inventory that also holds a
\* tradeable entry of another rank
Wit_C2_ReturnedAmongOtherRanks ==
    /\ SelDone
    /\ sel_result.found
    /\ \E i \in 1..Len(my_cards) :
          /\ entry_instance_id(my_cards[i]) # 0
          /\ card_rank_of(my_cards[i]) # target_rank_of(target_card)

Thm_C5_SetThenGet ==
    /\ (cache_last.op = "get" /\ cache_last.after_set # None) =>
           cache_last.ret = cache_last.after_set
    /\ cache_last.op = "set" =>
           /\ CacheKey(cache_last.id) \in DOMAIN cache_data
           /\ cache_data[CacheKey(cache_last.id)].wanters_count = cache_last.n
           /\ cache_data[CacheKey(cache_last.id)].timestamp = now
           /\ cache_file = cache_data

\* C5 witness: a get right after a set, at a time when an entry stamped at
\* the start would have expired
Wit_C5_GetRightAfterSet ==
    /\ cache_last.op = "get"
    /\ cache_last.after_set # None
    /\ now > CACHE_LIFETIME_HOURS * 3600

\* C6: a get of an entry older than 24 hours returns absent and removes the
\* entry from memory and from the file; a get of a younger entry returns
\* its count and changes neither.
Thm_C6_GetExpiry ==
    [][cache_last'.op = "get" =>
         LET key == CacheKey(cache_last'.id) IN
         key \in DOMAIN cache_data =>
            IF now - cache_data[key].timestamp > 24 * 3600
            THEN /\ cache_last'.ret = None
                 /\ key \notin DOMAIN cache_data'
                 /\ key \notin DOMAIN cache_file'
                 /\ \A k \in DOMAIN cache_data \ {key} :
                       k \in DOMAIN cache_data' /\ cache_data'[k] = cache_data[k]
            ELSE /\ cache_last'.ret = cache_data[key].wanters_count
                 /\ cache_data' = cache_data
                 /\ cache_file' = cache_file]_vars

\* C6 witness: a get has just removed an expired entry
Wit_C6_ExpiredEntryEvicted ==
    /\ cache_last.op = "get"
    /\ cache_last.saved
    /\ cache_last.ret = None
    /\ CacheKey(cache_last.id) \notin DOMAIN cache_data

\* the inventory slots holding a card of the target's rank that can be
\* offered: an instance id and a card id beside the rank
TradeableOfRank ==
    {i \in 1..Len(my_cards) :
        /\ card_rank_of(my_cards[i]) = target_rank_of(target_card)
        /\ entry_instance_id(my_cards[i]) # 0
        /\ card_id_of(my_cards[i]) # 0}

\* C23: when the inventory holds exactly one tradeable card of the target's
\* rank, the selector returns the instance id of that card whatever its
\* wanters count: accepted when the count is within the rule, as the closest
\* match otherwise, and never no card.
Thm_C23_OnlyCandidateIsReturned ==
    (SelDone /\ Cardinality(TradeableOfRank) = 1) =>
        /\ sel_result.found
        /\ \A i \in TradeableOfRank :
               sel_result.instance_id = entry_instance_id(my_cards[i])
        /\ sel_result.wanters # None
        /\ IF InBand(target_card.wanters_count, sel_result.wanters)
           THEN sel_result.via = "accepted"
           ELSE sel_result.via = "closest"

\* C23 witness: the only rank-B card of a two-entry inventory is returned as
\* the closest match, its count being outside the band
Wit_C23_OnlyCandidateOutsideBand ==
    /\ SelDone
    /\ Len(my_cards) = 2
    /\ Cardinality(TradeableOfRank) = 1
    /\ sel_result.via = "closest"
    /\ ~InBand(target_card.wanters_count, sel_result.wanters)

\* the cache file holds the count w for card_id
Persisted(card_id, w) == get_wanters_count(cache_file, card_id, now) = w

\* C25 as stated: the count resolved for a candidate is in the cache file
\* afterwards, for the rejected candidates and for the accepted one; after a
\* remote lookup the cache holds an entry for the card id.
Orig_C25_ResolvedCountIsPersisted ==
    /\ \A k \in 1..Len(rejected_cards) :
           Persisted(rejected_cards[k][1], rejected_cards[k][2])
    /\ (SelDone /\ sel_result.via = "accepted") =>
           Persisted(sel_result.card_id, sel_result.wanters)


(***************************************************************************)
(* Claims about the orchestration loop                                     *)
(***************************************************************************)
\* the clock reading at which the dispatch of this step starts: the simulated
\* dispatch of a dry run starts when its wait is over
DispatchStart == IF dry_run THEN tr_now' ELSE tr_now

\* C1: within one run every dispatch, real or simulated, starts at least
\* MIN_TRADE_DELAY after the end of the previous dispatch, whoever the two
\* partners are; the interval is measured against the one last_trade_time
Thm_C1_MinDelayBetweenDispatches ==
    [][(tr_disp'.n = tr_disp.n + 1 /\ tr_disp.n >= 1)
          => DispatchStart - tr_disp.end >= DelayTicks]_vars

\* a second real dispatch, to another partner, that the loop slept for
Wit_C1_SecondDispatchAfterWait ==
    /\ tr_disp.n >= 2
    /\ ~dry_run
    /\ tr_disp.waited
    /\ tr_disp.owner # tr_disp.prev_owner

\* the own instances the selector's filter keeps for the target of the run
EligibleInstances ==
    {FilterSuitable(my_cards, target_rank_of(target_card))[i].instance_id :
        i \in 1..Len(FilterSuitable(my_cards, target_rank_of(target_card)))}

Orig_C10_OffersRankMatchingInstance ==
    /\ tr_pc \in {"wait", "dry_wait", "dispatch", "jitter"}
          => my_inst \in EligibleInstances
    /\ (tr_pc # "off" /\ EligibleInstances = {}) => stats.trades_attempted = 0

\* C11: for an owner id equal to the operating user's id the loop increments
\* skipped_self and makes neither a locator call nor a dispatch for that owner
Thm_C11_SelfIsSkipped ==
    [][(tr_pc = "owner" /\ ToString(owners[idx]) = my_user_id)
          => /\ stats' = [stats EXCEPT !.owners_seen = @ + 1, !.skipped_self = @ + 1]
             /\ tr_disp' = tr_disp
             /\ his_inst' = his_inst
             /\ my_inst' = my_inst
             /\ tr_now' = tr_now
             /\ tr_pc' \in {"owner", "pages"}
             /\ idx' = idx + 1]_vars

\* the operating user was met on a page after a partner was located and served
Wit_C11_SelfSkippedAfterPartner ==
    /\ stats.skipped_self >= 1
    /\ tr_disp.located >= 1
    /\ tr_disp.n >= 1
    /\ stats.owners_seen = stats.skipped_self + tr_disp.located

\* C12: a dry run sends no submission and counts no success, while the self
\* skip, the locator, the choice of the own instance and the statistics are
\* carried out and consecutive simulated dispatches keep MIN_TRADE_DELAY
Thm_C12_DryRunSendsNothing ==
    /\ [](dry_run =>
            /\ tr_disp.submits = 0
            /\ stats.trades_succeeded = 0
            /\ tr_pc \notin {"wait", "dispatch", "jitter"}
            /\ tr_disp.n <= stats.trades_attempted
            /\ stats.trades_attempted <= tr_disp.n + 1
            /\ stats.owners_seen = stats.skipped_self + tr_disp.located
            /\ tr_disp.located = stats.skipped_no_instance + stats.trades_attempted)
    /\ [][(dry_run /\ tr_disp'.n = tr_disp.n + 1)
            => /\ tr_disp'.my_inst = my_inst /\ tr_disp'.his_inst = his_inst
               /\ tr_disp.n >= 1 => tr_now' - tr_disp.end >= DelayTicks]_vars

\* two simulated dispatches of a dry run, the second after a sleep, the
\* operating user skipped and a partner missed in between
Wit_C12_DryRunRehearsal ==
    /\ dry_run
    /\ tr_disp.n >= 2
    /\ tr_disp.waited
    /\ stats.trades_attempted = tr_disp.n
    /\ tr_disp.located >= 2

\* C13: every trade attempted, real or simulated, has an own instance id and
\* a partner instance id that are not null
Thm_C13_InstancesNotNull ==
    /\ \A i \in 1..Len(my_instances) : my_instances[i] # 0
    /\ tr_pc \in {"wait", "dry_wait", "dispatch", "jitter"} => my_inst # 0 /\ his_inst # 0
    /\ tr_disp.n >= 1 => tr_disp.my_inst # 0 /\ tr_disp.his_inst # 0

\* a trade attempted from an inventory that also holds an entry without an
\* instance id
Wit_C13_AttemptBesideEntryWithoutInstance ==
    /\ tr_disp.n >= 1
    /\ \E i \in 1..Len(my_cards) : entry_instance_id(my_cards[i]) = 0

\* C14: pages are consumed one at a time and in order, a page is fetched only
\* when every owner of the one before is finished, and the owners of a page
\* are taken and served in list order
Thm_C14_OwnersInYieldOrder ==
    [][/\ pages_yielded' # pages_yielded
            => /\ pages_yielded' = pages_yielded + 1
               /\ idx = IF pages_yielded = 0 THEN 0 ELSE Len(owners) + 1
               /\ idx' = 1
               /\ tr_pc = "pages"
       /\ pages_yielded' = pages_yielded
            => /\ owners' = owners
               /\ idx' \in {idx, idx + 1}
               /\ idx' = idx + 1 => idx <= Len(owners)
       /\ stats'.owners_seen # stats.owners_seen
            => /\ stats'.owners_seen = stats.owners_seen + 1
               /\ tr_pc = "owner" /\ idx <= Len(owners)
               /\ idx' = idx => tr_pc' \in {"wait", "dry_wait"}
       /\ (pages_yielded' = pages_yielded /\ idx' = idx + 1)
            => \/ stats'.owners_seen = stats.owners_seen + 1
               \/ tr_pc \in {"dry_wait", "jitter"}
       /\ tr_disp'.n # tr_disp.n => tr_disp'.owner = owners[idx]]_vars

\* a second page reached with two dispatches made, to different partners
Wit_C14_TwoPagesTwoDispatches ==
    /\ pages_yielded >= 2
    /\ tr_disp.n >= 2
    /\ tr_disp.owner # tr_disp.prev_owner

\* C15: while the boost monitor's stop signal (should_stop_trades) is raised,
\* the loop processes no owner it had not begun when the signal was raised
\* and starts no dispatch beyond the one then in hand.
Orig_C15_NoOwnerAfterStopSignal ==
    should_stop_trades =>
        /\ stats.owners_seen = stop_mark.seen
        /\ tr_disp.n <= stop_mark.dispatches + 1

(***************************************************************************)
(* Claims about the files of the profile directory                         *)
(***************************************************************************)
\* C16: when the process is killed during a write, every target file (the
\* wanters cache, the unified storage, the cards snapshot, the boost-card
\* snapshot) still holds a complete content; writes of two threads to one
\* file at once are left aside.
Orig_C16_CrashLeavesCompleteFiles ==
    (crashed /\ ~overlapped) =>
        \A f \in Targets : dir[f] # 0 /\ Complete(ino[dir[f]])

\* C17: the monitor thread and the main thread are never inside a save of the
\* unified storage at the same time, and the storage file always holds a
\* complete content.
Orig_C17_OneWriterOfStorage ==
    /\ Cardinality({t \in Threads : w_pc[t] # "idle" /\ w_job[t].target = "storage"}) <= 1
    /\ dir["storage"] # 0 /\ Complete(ino[dir["storage"]])

(***************************************************************************)
(* Claims about the dispatch of a trade                                    *)
(***************************************************************************)
\* C19: when the primary submission of create_trade_via_api is answered by a
\* 301 or 302 whose Location contains /trades/, the dispatch reports success,
\* the body of the response is never read and no other submission is sent.
Thm_C19_RedirectIsSuccess ==
    (/\ d_resp # <<>>
     /\ d_resp[1].via = "api_primary"
     /\ d_resp[1].r.status_code \in {301, 302}
     /\ \E i \in 1..(Len(d_resp[1].r.location) - 1) : d_resp[1].r.location[i] = "trades")
    => /\ d_success
       /\ ~d_body_read
       /\ Len(d_resp) = 1
       /\ d_pc \in {"count", "counted"}
       /\ d_pc = "counted" => stats.trades_succeeded = d_before + 1

\* the redirect carried a body that reports an error, and the trade was counted
Wit_C19_RedirectWithErrorBody ==
    /\ d_pc = "counted"
    /\ Len(d_resp) = 1
    /\ d_resp[1].via = "api_primary"
    /\ d_resp[1].r.status_code = 302
    /\ d_resp[1].r.location = <<"trades", "123">>
    /\ d_resp[1].r.body.json.status = "error"
    /\ stats.trades_succeeded = 1

\* the success signals the specification names: a redirect to a trade-related
\* path, a success flag or a nested trade identifier in a JSON body, a known
\* success phrase
RecognisedSignal(r) ==
    \/ /\ r.status_code \in {301, 302}
       /\ \E i \in 1..Len(r.location) : r.location[i] \in {"trades", "offers"}
    \/ /\ r.body.json.kind = "dict"
       /\ \/ r.body.json.success
          \/ r.body.json.ok
          \/ r.body.json.trade_id # 0
          \/ r.body.json.status \in {"ok", "success"}
    \/ r.body.json.message \in Phrases
    \/ r.body.text.phrase \in Phrases

\* C20: a trade is counted in trades_succeeded only when one of the responses
\* to its submissions carried a recognised success signal.
Orig_C20_CountedOnlyOnRecognisedSignal ==
    (d_pc = "counted" /\ stats.trades_succeeded > d_before)
        => \E i \in 1..Len(d_resp) : RecognisedSignal(d_resp[i].r)

\* C21: a submission that raised a network exception is the last submission
\* sent for the trade, and the trade is then not counted as succeeded.
Orig_C21_ExceptionEndsTheAttempt ==
    \A i \in 1..Len(d_resp) :
        d_resp[i].r = RequestError =>
            /\ i = Len(d_resp)
            /\ stats.trades_succeeded = d_before

\* the success signals of create_trade_via_api: a 301 or 302 to a path with
\* /trades/, a success flag or a nested trade identifier in a JSON body, one
\* of the success phrases in plain letters in the text of the body
SuccessSignal(r) ==
    \/ /\ r.status_code \in {301, 302}
       /\ \E i \in 1..(Len(r.location) - 1) : r.location[i] = "trades"
    \/ /\ r.body.json.kind = "dict"
       /\ (r.body.json.success \/ r.body.json.ok \/ r.body.json.trade_id # 0)
    \/ r.body.text.phrase \in Phrases /\ ~r.body.text.escaped

\* C22: when the primary submission is answered without a success signal,
\* the secondary submission is sent with the same receiver and instance ids,
\* and create_trade_via_api returns False only when the secondary submission
\* brought no success signal either.
Orig_C22_FailureOnlyAfterSecondary ==
    (/\ d_resp # <<>>
     /\ d_resp[1].via = "api_primary"
     /\ d_resp[1].r # RequestError
     /\ ~SuccessSignal(d_resp[1].r))
    => \/ Len(d_resp) = 1 /\ d_pc = "api_secondary" /\ d_api = ""
       \/ /\ Len(d_resp) >= 2
          /\ d_resp[2].via = "api_secondary"
          /\ d_resp[2].payload = d_resp[1].payload
          /\ d_api = "False" => ~SuccessSignal(d_resp[2].r)

(***************************************************************************)
(* Claims about the partner locator                                        *)
(***************************************************************************)
\* C18: when the partner's offers page lists the wanted card with an
\* instance id, find_partner_card_instance has returned that instance id after
\* exactly one network request, without entering the name search, the paged
\* scan or the final offers page.
Thm_C18_OffersHitReturnsAtOnce ==
    offers_hit =>
        /\ loc_pc = "returned"
        /\ loc_result = FoundInstance
        /\ loc_requests = 1
        /\ ajax = NoAjax
        /\ paging = NoPaging

\* the second call of a run finds the card on the offers page
Wit_C18_HitOnSecondCall ==
    /\ offers_hit
    /\ loc_calls = 2
    /\ loc_result = FoundInstance

\* C7 as stated: a call for a partner whose timeout count reached the limit
\* earlier in the run issues no network request and returns not-found
Orig_C7_NoRequestOnceBlocked ==
    (loc_pc \notin {"off", "idle"} /\ loc_args.was_blocked)
        => loc_requests = 0 /\ loc_result = 0

\* C8 as stated: no partner in blocked has an entry in timeouts, and no count
\* in timeouts has reached the limit
Orig_C8_BlockedHasNoCounter ==
    /\ \A p \in blocked : p \notin DOMAIN timeouts
    /\ \A p \in DOMAIN timeouts : timeouts[p] < PARTNER_TIMEOUT_LIMIT

\* the strategies that apply to the call, in their order: the offers page,
\* the name search when the hint is longer than 2 characters, the paged
\* scan, the offers page once more
Applicable ==
    <<1>> \o (IF loc_args.has_name THEN <<2>> ELSE <<>>) \o <<3, 4>>

IsPrefix(a, b) == Len(a) <= Len(b) /\ \A i \in 1..Len(a) : a[i] = b[i]

\* the call has returned not-found
NotFound == loc_pc = "returned" /\ loc_result = 0

\* C26 as stated: the strategies are entered in the order 1, 2, 3, 4, and
\* not-found is returned only after every applicable strategy up to and
\* including 4 was tried, also when strategy 1 ended in a timeout or a
\* network error.
Orig_C26_NotFoundOnlyAfterAllStrategies ==
    /\ IsPrefix(loc_tried, Applicable)
    /\ NotFound => loc_tried = Applicable

\* C26 amended: the strategies are entered in the order 1, 2, 3, 4 and a hit
\* ends the call; not-found is returned after every applicable strategy was
\* tried, or at once when the offers page of strategy 1 ended in a read
\* timeout or a network error, or when a loader raised an unexpected
\* exception in strategy 2 or 3.
Thm_C26_StrategiesInOrder ==
    /\ IsPrefix(loc_tried, Applicable)
    /\ loc_result # 0 => loc_pc = "returned"
    /\ NotFound =>
          \/ loc_tried = Applicable
          \/ /\ loc_tried = <<1>>
             /\ loc_last.stage = "offers"
             /\ loc_last.outcome \in {"read_timeout", "request_error"}
          \/ /\ loc_last.stage \in {"search", "load"}
             /\ loc_last.outcome = "crash"
             /\ loc_tried # <<>> /\ loc_tried[Len(loc_tried)] \in {2, 3}

\* C26 witness: not-found after the offers page, the name search, the paged
\* scan and the final offers page were tried in turn
Wit_C26_NotFoundAfterFourStrategies ==
    /\ NotFound
    /\ loc_tried = <<1, 2, 3, 4>>
    /\ loc_last.stage = "final"

\* while the call is in its name search: the requests it has sent with the
\* name hint, which are the GET of the search endpoint and the payloads of
\* the load endpoint that carry the search (the offers page came before)
NameRequests ==
    1 + Cardinality({i \in 1..(loc_requests - 2) :
                        payload_has_search(loc_args.has_rank, TRUE, i)})

\* C27 as stated: the name search runs only with a hint longer than 2
\* characters, it sends exactly one request that searches by the name, and
\* without such a hint no request searches by name.
Orig_C27_OneNameSearchRequest ==
    /\ (\E i \in 1..Len(loc_tried) : loc_tried[i] = 2) => loc_args.has_name
    /\ loc_tried = <<1, 2>> => NameRequests = 1

\* C28 as stated: within one call no request is issued to the partner from
\* the moment it is in blocked.
Orig_C28_NoRequestWhileBlocked ==
    [][loc_requests' = loc_requests + 1 => ~is_blocked(blocked, loc_args.partner)]_vars

\* C29 as stated: after a read timeout of any network attempt of the call
\* the partner's timeout count is one more than before it (or the count has
\* reached the limit and the partner is blocked).
Orig_C29_EveryTimeoutIsCounted ==
    loc_last.outcome = "read_timeout" =>
        LET p == loc_args.partner IN
        \/ p \in DOMAIN timeouts /\ timeouts[p] = loc_last.before + 1
        \/ /\ loc_last.before + 1 >= PARTNER_TIMEOUT_LIMIT
           /\ p \in blocked
           /\ p \notin DOMAIN timeouts

Orig_C24_ReportedCardIsPersisted ==
    (b_pc = "idle" /\ b_report # None) =>
        get_current_boost_card(boost_cards) = b_report

(***************************************************************************)
(* Claims on the paged scan                                                *)
(***************************************************************************)
\* while the scan goes on: the offset of the next request is the number of
\* cards the earlier pages held, every earlier page was a full one, and the
\* ceiling and the page limit have not been passed
ScanGoesOn ==
    loc_pc = "scan" =>
        /\ paging.offset = scan_seen.received
        /\ scan_seen.last # None => scan_seen.last >= page_size
        /\ paging.scanned <= max_scanned_limit
        /\ paging.page < max_scan_pages

\* C31: the paged scan always ends; it goes on only after a full page, with
\* at most 30000 cards scanned and fewer than 1000 pages read, and the offset
\* it sends for a page is the number of cards received on the earlier pages
Thm_C31_PagedScanTerminates == [](ScanGoesOn) /\ <>(loc_pc # "scan")

\* the scan was stopped by the ceiling, after pages longer than the page size
Wit_C31_StoppedByCeiling ==
    /\ loc_pc = "final"
    /\ paging.scanned > max_scanned_limit
    /\ paging.offset = scan_seen.received
    /\ paging.offset > paging.page * page_size
    /\ scan_seen.last >= page_size

(***************************************************************************)
(* Claims on the cleanup of the cache                                      *)
(***************************************************************************)
\* C32: cleanup_old_entries removes every entry older than 24 hours and leaves
\* every other entry as it was; when no entry is that old, neither the cache
\* nor its file is changed
Thm_C32_CleanupRemovesExpiredOnly ==
    [][cache_last'.op = "cleanup" =>
         /\ DOMAIN cache_data' \subseteq DOMAIN cache_data
         /\ \A key \in DOMAIN cache_data :
               IF now - cache_data[key].timestamp > 24 * 3600
               THEN key \notin DOMAIN cache_data'
               ELSE key \in DOMAIN cache_data' /\ cache_data'[key] = cache_data[key]
         /\ (\A key \in DOMAIN cache_data : now - cache_data[key].timestamp <= 24 * 3600) =>
               /\ cache_data' = cache_data
               /\ cache_file' = cache_file
               /\ ~cache_last'.saved]_vars

\* C32 witness: a cleanup has just removed an entry and kept a younger one
Wit_C32_CleanupKeptYoungEntry ==
    /\ cache_last.op = "cleanup"
    /\ cache_last.saved
    /\ cache_data # EmptyCache
    /\ cache_file = cache_data

(***************************************************************************)
(* Claims on the lookups of the card selector                              *)
(***************************************************************************)
\* the candidates whose wanters count the call has resolved
Resolved == Len(rejected_cards) + (IF sel_result.via = "accepted" THEN 1 ELSE 0)

\* C33: the site is asked for a wanters count only for a candidate without an
\* unexpired cache entry; at most MAX_SELECTION_ATTEMPTS candidates are
\* resolved in one call; no candidate is resolved after one was accepted
Thm_C33_LookupsOnlyWhenUncached ==
    [][/\ sel_lookups' # sel_lookups =>
            /\ sel_lookups' = sel_lookups + 1
            /\ sel_pc = "loop"
            /\ LET key == CacheKey(suitable_cards[attempt + 1].card_id) IN
               key \in DOMAIN cache_data =>
                   now - cache_data[key].timestamp > 24 * 3600
       /\ Resolved' # Resolved =>
            /\ Resolved' = Resolved + 1
            /\ sel_result.via # "accepted"
            /\ sel_lookups' <= sel_lookups + 1
       /\ Resolved' <= 10
       /\ sel_lookups' <= Resolved']_vars

\* C33 witness: ten candidates of a longer list were resolved and rejected,
\* some from the cache and some by asking the site
Wit_C33_TenResolvedOfEleven ==
    /\ SelDone
    /\ Len(suitable_cards) > MAX_SELECTION_ATTEMPTS
    /\ Len(rejected_cards) = MAX_SELECTION_ATTEMPTS
    /\ sel_lookups > 0
    /\ sel_lookups < Len(rejected_cards)

(***************************************************************************)
(* Claims on the statistics of a run                                       *)
(***************************************************************************)
\* the loop stands between two owners, or the run is over
OwnerBoundary == tr_pc \in {"owner", "pages", "returned"}

\* C34: between two owners of a run every owner seen is counted under exactly
\* one of skipped_self, skipped_no_instance and trades_attempted, no more
\* trades succeeded than were attempted, and checked_pages is the number of
\* pages taken from the source; no counter of the statistics ever decreases
Thm_C34_StatisticsAddUp ==
    /\ [](OwnerBoundary =>
            /\ stats.owners_seen = stats.skipped_self + stats.skipped_no_instance
                                   + stats.trades_attempted
            /\ stats.trades_succeeded <= stats.trades_attempted
            /\ stats.checked_pages = pages_yielded)
    /\ [][\A counter \in DOMAIN stats : stats'[counter] >= stats[counter]]_vars

\* C34 witness: a run of two pages is over, with one owner without the card
\* and one trade that succeeded
Wit_C34_RunOfTwoPagesCounted ==
    /\ tr_pc = "returned"
    /\ stats.checked_pages = 2
    /\ stats.owners_seen = 2
    /\ stats.skipped_no_instance = 1
    /\ stats.trades_attempted = 1
    /\ stats.trades_succeeded = 1

(***************************************************************************)
(* Claims on the selector returning no card                                *)
(***************************************************************************)
\* C35: the selector returns no card exactly when the inventory has no entry
\* of the target's rank with both an instance id and a card id
Thm_C35_NoCardIffNoCandidate ==
    SelDone =>
        /\ ~sel_result.found <=> TradeableOfRank = {}
        /\ sel_result.found => \E i \in TradeableOfRank :
              sel_result.instance_id = entry_instance_id(my_cards[i])
        /\ sel_result.via # "fell_through"

\* C35 witness: no card is returned although an entry of the target's rank
\* has an instance id, because it has no card id
Wit_C35_NoCardWithoutCardId ==
    /\ SelDone
    /\ ~sel_result.found
    /\ \E i \in 1..Len(my_cards) :
          /\ card_rank_of(my_cards[i]) = target_rank_of(target_card)
          /\ entry_instance_id(my_cards[i]) # 0
          /\ card_id_of(my_cards[i]) = 0

(***************************************************************************)
(* Claims on the monitor thread                                            *)
(***************************************************************************)
\* the monitor_loop threads that are inside check_and_process
Checking == {t \in LoopThreads : loop_pc[t] = "check"}

\* C36 as stated: whatever the sequence of start_monitoring and
\* stop_monitoring calls, at most one monitor_loop thread is inside
\* check_and_process at any time
Orig_C36_OneLoopAtATime == Cardinality(Checking) <= 1

(***************************************************************************)
(* Claims on the pause of the trades                                       *)
(***************************************************************************)
\* C37 as stated: once the donation attempt that check_and_process began has
\* finished, with or without success, should_stop_trades is clear again
Orig_C37_PauseEndsWithDonation == b_pc = "idle" => ~should_stop_trades

(***************************************************************************)
(* Claims on the current boost card of the storage                         *)
(***************************************************************************)
\* C38 as stated: after any saves, get_current_boost_card returns the card of
\* the most recent save_boost_card call, and no card id is stored twice
Orig_C38_CurrentIsLastSaved ==
    /\ b_saved # None => get_current_boost_card(boost_cards) = b_saved
    /\ \A i, j \in 1..Len(boost_cards) :
          boost_cards[i].card_id = boost_cards[j].card_id => i = j

(***************************************************************************)
(* Claims on the interval between two runs                                 *)
(***************************************************************************)
\* C39 as stated: the first dispatch of a run the monitor loop starts begins
\* at least MIN_TRADE_DELAY after the end of the last dispatch of the runs
\* before it
Orig_C39_MinDelayAcrossRuns ==
    [][(tr_disp.n = 0 /\ tr_disp'.n = 1 /\ mon_last_end # None)
          => DispatchStart - mon_last_end >= DelayTicks]_vars

====
